---------------------------- MODULE Spec2Model ----------------------------
(***************************************************************************)
(* PortMUX: SSH port forwards kept as named windows of one tmux session.   *)
(*                                                                         *)
(* A Python str is modelled as a sequence of one-character strings, so     *)
(* that the regular expression of parse_port_spec, the "{d}:{spec}" window *)
(* names, the " ".join / split() of the ssh command line and the           *)
(* "name|flags|command" lines of `tmux list-windows` are computed the way  *)
(* the code computes them.  None and "" (both falsy) are the empty         *)
(* sequence.                                                               *)
(***************************************************************************)
EXTENDS Integers, Sequences, FiniteSets, TLC

VARIABLES
    session,    \* TRUE iff the tmux session exists
    windows,    \* the session's windows, in tmux's listing order
    pane,       \* what tmux reports for #{pane_current_command}
    op,         \* the invocation that has just ended, with its arguments
    ret,        \* what it returned or raised
    calls,      \* the tmux subprocess calls it issued, in order
    before      \* the session and its windows when it was invoked

vars == <<session, windows, pane, op, ret, calls, before>>

-----------------------------------------------------------------------------
(* Bounds of the model. *)

\* longest string enumerated exhaustively as an input of parse_port_spec
MaxLen == 5

\* most windows the session holds (forwards are not added beyond it)
MaxWindows == 2

\* most iterations of one `--all` loop that meet a hard failure of tmux
MaxFaults == 1

-----------------------------------------------------------------------------
(* Characters and strings. *)

NL == "\n"

Digits == {"0", "1", "2", "3", "4", "5", "6", "7", "8", "9"}

Whitespace == {" ", NL, "\t"}

DigitVal(c) ==
    CASE c = "0" -> 0 [] c = "1" -> 1 [] c = "2" -> 2 [] c = "3" -> 3
      [] c = "4" -> 4 [] c = "5" -> 5 [] c = "6" -> 6 [] c = "7" -> 7
      [] c = "8" -> 8 [] c = "9" -> 9

\* int(port_str) for a string of decimal digits
RECURSIVE int(_)
int(s) ==
    IF s = <<>> THEN 0
    ELSE 10 * int(SubSeq(s, 1, Len(s) - 1)) + DigitVal(s[Len(s)])

\* c in s
Contains(s, c) == \E i \in 1..Len(s) : s[i] = c

\* the index of the first element of seq equal to x, 0 when there is none
FirstIndex(seq, x) ==
    IF \E n \in 1..Len(seq) : seq[n] = x
    THEN CHOOSE n \in 1..Len(seq) :
             seq[n] = x /\ \A m \in 1..(n - 1) : seq[m] # x
    ELSE 0

\* s[k:] with a 0-based k, as Python slices
SliceFrom(s, k) == SubSeq(s, k + 1, Len(s))

\* the number of characters of s from index i on that are decimal digits
RECURSIVE DigitRun(_, _)
DigitRun(s, i) ==
    IF i <= Len(s) /\ s[i] \in Digits THEN 1 + DigitRun(s, i + 1) ELSE 0

\* the number of characters of s from index i on that are not a colon
RECURSIVE NonColonRun(_, _)
NonColonRun(s, i) ==
    IF i <= Len(s) /\ s[i] # ":" THEN 1 + NonColonRun(s, i + 1) ELSE 0

\* the number of characters of s from index i on that are not whitespace
RECURSIVE TokenRun(_, _)
TokenRun(s, i) ==
    IF i <= Len(s) /\ s[i] \notin Whitespace THEN 1 + TokenRun(s, i + 1) ELSE 0

\* the index of the first c in s at or after index i, 0 when there is none
RECURSIVE Find(_, _, _)
Find(s, c, i) ==
    IF i > Len(s) THEN 0 ELSE IF s[i] = c THEN i ELSE Find(s, c, i + 1)

\* s[i - 1:].split(c, maxsplit)
RECURSIVE split_from(_, _, _, _)
split_from(s, c, maxsplit, i) ==
    LET k == Find(s, c, i)
    IN  IF maxsplit = 0 \/ k = 0 THEN <<SubSeq(s, i, Len(s))>>
        ELSE <<SubSeq(s, i, k - 1)>> \o split_from(s, c, maxsplit - 1, k + 1)

\* s.split(c, maxsplit)
split_max(s, c, maxsplit) == split_from(s, c, maxsplit, 1)

\* s.split(c)
split(s, c) == split_from(s, c, Len(s), 1)

\* s[i - 1:].split(): the maximal runs of non-whitespace characters
RECURSIVE split_ws_from(_, _)
split_ws_from(s, i) ==
    IF i > Len(s) THEN <<>>
    ELSE IF s[i] \in Whitespace THEN split_ws_from(s, i + 1)
    ELSE LET k == TokenRun(s, i)
         IN  <<SubSeq(s, i, i + k - 1)>> \o split_ws_from(s, i + k)

\* s.split()
split_ws(s) == split_ws_from(s, 1)

\* the number of whitespace characters s starts with from index i on
RECURSIVE LeadingSpace(_, _)
LeadingSpace(s, i) ==
    IF i <= Len(s) /\ s[i] \in Whitespace THEN 1 + LeadingSpace(s, i + 1) ELSE 0

\* the number of whitespace characters s ends with up to index i
RECURSIVE TrailingSpace(_, _)
TrailingSpace(s, i) ==
    IF i >= 1 /\ s[i] \in Whitespace THEN 1 + TrailingSpace(s, i - 1) ELSE 0

\* s.strip()
strip(s) ==
    LET a == LeadingSpace(s, 1)
    IN  IF a = Len(s) THEN <<>>
        ELSE SubSeq(s, a + 1, Len(s) - TrailingSpace(s, Len(s)))

\* sep.join(parts)
RECURSIVE join(_, _)
join(sep, parts) ==
    IF parts = <<>> THEN <<>>
    ELSE IF Len(parts) = 1 THEN parts[1]
    ELSE parts[1] \o sep \o join(sep, Tail(parts))

\* the elements of seq at the indices in keep, in order
RECURSIVE SelectFrom(_, _, _)
SelectFrom(seq, keep, i) ==
    IF i > Len(seq) THEN <<>>
    ELSE IF i \in keep THEN <<seq[i]>> \o SelectFrom(seq, keep, i + 1)
    ELSE SelectFrom(seq, keep, i + 1)

SelectIdx(seq, keep) == SelectFrom(seq, keep, 1)

-----------------------------------------------------------------------------
(* Results. *)

NoGroups == <<>>

\* What an operation returned or raised.  err is "none" or the error raised;
\* name, parsed, forwards and value hold the returned window name, dict, list
\* and bool; a CLI command also leaves what it printed last (said), its
\* success count out of total, the forwards it reported as failed with their
\* errors, and its exit status.
Ret(err) ==
    [err |-> err, name |-> <<>>, parsed |-> <<>>, forwards |-> <<>>,
     value |-> FALSE, said |-> "", count |-> 0, total |-> 0, failed |-> <<>>,
     exit |-> 0]

\* one tmux subprocess call (or a sleep, or the call of refresh_forward by the
\* loop of `refresh --all`) and the window it names
Call(cmd, target) == [cmd |-> cmd, target |-> target]

\* An invocation: the operation, its arguments, and the hard failures the
\* tmux calls of this invocation meet.
NoOp ==
    [name |-> "none", direction |-> <<>>, spec |-> <<>>, host |-> <<>>,
     identity |-> <<>>, target |-> <<>>, force |-> FALSE, answer |-> FALSE,
     delay |-> 0, fault |-> 0, pre |-> "none", each |-> <<>>]

-----------------------------------------------------------------------------
(* parse_port_spec *)

\* re.match(r'^(\d{1,5}):([^:]+):(\d{1,5})$', spec): the three groups, or
\* NoGroups.  \d{1,5} is followed by a colon, which is no digit, so the first
\* group is the whole leading run of digits; [^:]+ runs to the next colon; '$'
\* matches at the end of the string and also just before a newline that ends it.
re_match(spec) ==
    LET n == Len(spec)
        i == DigitRun(spec, 1)
        h == NonColonRun(spec, i + 2)
        j == i + 1 + h + 1
        k == DigitRun(spec, j + 1)
    IN  IF /\ i \in 1..5
           /\ i + 1 <= n /\ spec[i + 1] = ":"
           /\ h >= 1
           /\ j <= n /\ spec[j] = ":"
           /\ k \in 1..5
           /\ \/ j + k = n
              \/ j + k = n - 1 /\ spec[n] = NL
        THEN <<SubSeq(spec, 1, i), SubSeq(spec, i + 2, j - 1),
               SubSeq(spec, j + 1, j + k)>>
        ELSE NoGroups

\* parse_port_spec(spec): the dict {local_port, remote_host, remote_port} as a
\* triple, or the SSHError raised.
parse_port_spec(spec) ==
    LET m == re_match(spec)
    IN  IF m = NoGroups THEN Ret("InvalidPortSpec")
        ELSE IF \E x \in {1, 3} : ~ (1 <= int(m[x]) /\ int(m[x]) <= 65535)
             THEN Ret("InvalidPortSpec")
             ELSE [Ret("none") EXCEPT !.parsed = m]

-----------------------------------------------------------------------------
(* tmux, as the subprocess calls of windows.py use it.  A call ends with a    *)
(* return code, stdout and stderr; `fail` is a hard failure of the call (tmux *)
(* not installed, or an unexpected stderr), which the code turns into a       *)
(* TmuxError either way.  Windows are found by their exact name.              *)

\* #{pane_current_command} of a window: the command line the window was
\* created with, or the name of the process it runs (its first word)
pane_current_command(w, pn) ==
    IF pn = "command line" THEN w.command ELSE split_ws(w.command)[1]

\* #{window_flags} of the window that has k - 1 windows after it: the window
\* created last is the current one ("*"), the one before it the last one ("-")
window_flags(k) ==
    IF k = 1 THEN <<"*">> ELSE IF k = 2 THEN <<"-">> ELSE <<>>

\* stdout of list-windows -F "#{window_name}|#{window_flags}|#{pane_current_command}"
RECURSIVE FormatWindows(_, _)
FormatWindows(wins, pn) ==
    IF wins = <<>> THEN <<>>
    ELSE wins[1].name \o <<"|">> \o window_flags(Len(wins)) \o <<"|">>
            \o pane_current_command(wins[1], pn) \o <<NL>>
            \o FormatWindows(Tail(wins), pn)

tmux_list_windows(g, pn, fail) ==
    IF fail THEN [rc |-> 1, stdout |-> <<>>, stderr |-> "error"]
    ELSE IF ~ g.session
         THEN [rc |-> 1, stdout |-> <<>>, stderr |-> "session not found"]
         ELSE [rc |-> 0, stdout |-> FormatWindows(g.windows, pn), stderr |-> ""]

\* a new-window that refuses a name some window of the session carries: the
\* atomic create-if-absent that tmux does not offer, and C19 rules out
tmux_new_window_unique(g, name, command, fail) ==
    IF fail THEN [rc |-> 1, stderr |-> "error", g |-> g]
    ELSE IF ~ g.session THEN [rc |-> 1, stderr |-> "session not found", g |-> g]
    ELSE IF \E n \in 1..Len(g.windows) : g.windows[n].name = name
         THEN [rc |-> 1, stderr |-> "duplicate window", g |-> g]
    ELSE [rc |-> 0, stderr |-> "",
          g |-> [g EXCEPT !.windows =
                    g.windows \o <<[name |-> name, command |-> command]>>]]

tmux_new_window(g, name, command, fail) ==
    IF fail THEN [rc |-> 1, stderr |-> "error", g |-> g]
    ELSE IF ~ g.session THEN [rc |-> 1, stderr |-> "session not found", g |-> g]
    ELSE [rc |-> 0, stderr |-> "",
          g |-> [g EXCEPT !.windows =
                    g.windows \o <<[name |-> name, command |-> command]>>]]

\* kill-window -t session:name.  A name that no window, or more than one
\* window, carries is not found.  Closing the last window ends the session.
tmux_kill_window(g, name, fail) ==
    LET hits == {n \in 1..Len(g.windows) : g.windows[n].name = name}
        left == SelectIdx(g.windows, (1..Len(g.windows)) \ hits)
    IN  IF fail THEN [rc |-> 1, stderr |-> "error", g |-> g]
        ELSE IF ~ g.session
             THEN [rc |-> 1, stderr |-> "session not found", g |-> g]
        ELSE IF Cardinality(hits) # 1
             THEN [rc |-> 1, stderr |-> "can't find window", g |-> g]
        ELSE [rc |-> 0, stderr |-> "",
              g |-> [session |-> left # <<>>, windows |-> left]]

-----------------------------------------------------------------------------
(* windows.py *)

create_window(g, name, command, fail) ==
    LET result == tmux_new_window(g, name, command, fail)
    IN  IF result.rc = 0 THEN [err |-> "none", g |-> result.g]
        ELSE [err |-> "TmuxError", g |-> result.g]

\* kill_window raising whenever tmux refuses, for a window that is gone too:
\* a refresh_forward under it does not outlive a removal by another invoker
kill_window_strict(g, name, fail) ==
    LET result == tmux_kill_window(g, name, fail)
    IN  IF result.rc = 0 THEN [err |-> "none", g |-> result.g]
        ELSE [err |-> "TmuxError", g |-> result.g]

kill_window(g, name, fail) ==
    LET result == tmux_kill_window(g, name, fail)
    IN  IF result.rc = 0 THEN [err |-> "none", g |-> result.g]
        ELSE IF result.stderr \in {"window not found", "can't find window"}
             THEN [err |-> "none", g |-> result.g]
        ELSE [err |-> "TmuxError", g |-> result.g]

\* what list_windows appends for one line, parts being line.split('|', 2)
window_of(line, parts) ==
    IF line # <<>> /\ Len(parts) >= 3
    THEN <<[name |-> parts[1], status |-> parts[2], command |-> parts[3]]>>
    ELSE <<>>

\* the loop of list_windows over the lines of the listing
RECURSIVE windows_of(_)
windows_of(lines) ==
    IF lines = <<>> THEN <<>>
    ELSE window_of(Head(lines), split_max(Head(lines), "|", 2))
            \o windows_of(Tail(lines))

\* list_windows raising on every failure of tmux, a missing session too: what
\* C10 rules out
list_windows_result_strict(result) ==
    IF result.rc = 0
    THEN [err |-> "none",
          windows |-> windows_of(split(strip(result.stdout), NL))]
    ELSE [err |-> "TmuxError", windows |-> <<>>]

\* list_windows, from the result of the tmux call on
list_windows_result(result) ==
    IF result.rc = 0
    THEN [err |-> "none",
          windows |-> windows_of(split(strip(result.stdout), NL))]
    ELSE IF result.stderr = "session not found"
         THEN [err |-> "none", windows |-> <<>>]
    ELSE [err |-> "TmuxError", windows |-> <<>>]

list_windows(g, pn, fail) ==
    list_windows_result(tmux_list_windows(g, pn, fail))

\* window_exists, from the list of windows on
window_exists_in(listed, name) ==
    [err |-> listed.err,
     value |-> \E n \in 1..Len(listed.windows) : listed.windows[n].name = name]

window_exists(g, pn, name, fail) ==
    window_exists_in(list_windows(g, pn, fail), name)

-----------------------------------------------------------------------------
(* forwards.py.  Each function takes the tmux state g and `fault`, the number *)
(* of the tmux call of this invocation that fails hard (0: none does), and    *)
(* yields the tmux state it leaves, what it returns or raises, and the tmux   *)
(* calls it issued.                                                           *)

Out(g, r, c) == [g |-> g, ret |-> r, calls |-> c]

ssh == <<"s", "s", "h">>

L == <<"L">>

R == <<"R">>

\* f"{direction}:{spec}"
WindowName(direction, spec) == direction \o <<":">> \o spec

\* ssh_args with the host put before the identity: a command line C4 rules out
ssh_args_host_first(direction, parsed_spec, host, identity) ==
    <<ssh, <<"-", "N">>>>
        \o <<(IF direction = L THEN <<"-", "L">> ELSE <<"-", "R">>),
             parsed_spec[1] \o <<":">> \o parsed_spec[2] \o <<":">>
                 \o parsed_spec[3]>>
        \o <<host>>
        \o (IF identity # <<>> THEN <<<<"-", "i">>, identity>> ELSE <<>>)

\* the argument list add_forward joins into the ssh command line
ssh_args(direction, parsed_spec, host, identity) ==
    <<ssh, <<"-", "N">>>>
        \o <<(IF direction = L THEN <<"-", "L">> ELSE <<"-", "R">>),
             parsed_spec[1] \o <<":">> \o parsed_spec[2] \o <<":">>
                 \o parsed_spec[3]>>
        \o (IF identity # <<>> THEN <<<<"-", "i">>, identity>> ELSE <<>>)
        \o <<host>>

\* add_forward, from the result of create_window on
add_forward_created(window_name, created) ==
    Out(created.g,
        IF created.err # "none" THEN Ret(created.err)
        ELSE [Ret("none") EXCEPT !.name = window_name],
        <<Call("list-windows", <<>>), Call("new-window", window_name)>>)

\* add_forward, from the answer of window_exists on
add_forward_checked(g, window_name, ssh_command, fault, exists) ==
    IF exists.err # "none"
    THEN Out(g, Ret(exists.err), <<Call("list-windows", <<>>)>>)
    ELSE IF exists.value
         THEN Out(g, Ret("DuplicateForward"), <<Call("list-windows", <<>>)>>)
    ELSE add_forward_created(window_name,
             create_window(g, window_name, ssh_command, fault = 2))

\* add_forward, from the result of parse_port_spec on
add_forward_parsed(g, pn, direction, spec, host, identity, fault, parsed) ==
    IF parsed.err # "none" THEN Out(g, Ret(parsed.err), <<>>)
    ELSE add_forward_checked(g, WindowName(direction, spec),
             join(<<" ">>, ssh_args(direction, parsed.parsed, host, identity)),
             fault,
             window_exists(g, pn, WindowName(direction, spec), fault = 1))

\* add_forward parsing the spec before it looks at the direction: an order of
\* the checks C5 rules out
add_forward_spec_first(g, pn, direction, spec, host, identity, fault) ==
    IF parse_port_spec(spec).err # "none"
    THEN Out(g, Ret(parse_port_spec(spec).err), <<>>)
    ELSE IF direction \notin {L, R}
         THEN Out(g, Ret("InvalidDirection"), <<>>)
    ELSE add_forward_parsed(g, pn, direction, spec, host, identity, fault,
                            parse_port_spec(spec))

add_forward(g, pn, direction, spec, host, identity, fault) ==
    IF direction \notin {L, R} THEN Out(g, Ret("InvalidDirection"), <<>>)
    ELSE add_forward_parsed(g, pn, direction, spec, host, identity, fault,
                            parse_port_spec(spec))

remove_forward(g, name, fault) ==
    LET killed == kill_window(g, name, fault = 1)
    IN  Out(killed.g, [Ret(killed.err) EXCEPT !.value = killed.err = "none"],
            <<Call("kill-window", name)>>)

\* the test list_forwards applies to a window name
IsForwardName(name) == Contains(name, ":") /\ name[1] \in {"L", "R"}

\* forward_of taking the spec from the colon on: a decoding C7 rules out
forward_of_from_colon(window) ==
    [name |-> window.name,
     direction |-> <<window.name[1]>>,
     spec |-> SliceFrom(window.name, 1),
     status |-> window.status,
     command |-> window.command]

\* the dict list_forwards appends for a window
forward_of(window) ==
    [name |-> window.name,
     direction |-> <<window.name[1]>>,
     spec |-> SliceFrom(window.name, 2),
     status |-> window.status,
     command |-> window.command]

\* the loop of list_forwards putting each forward before the ones found so
\* far: an order C9 rules out
RECURSIVE forwards_of_newest_first(_)
forwards_of_newest_first(wins) ==
    IF wins = <<>> THEN <<>>
    ELSE forwards_of_newest_first(Tail(wins))
            \o (IF IsForwardName(Head(wins).name)
                THEN <<forward_of(Head(wins))>> ELSE <<>>)

\* the loop of list_forwards over the windows
RECURSIVE forwards_of(_)
forwards_of(wins) ==
    IF wins = <<>> THEN <<>>
    ELSE (IF IsForwardName(Head(wins).name) THEN <<forward_of(Head(wins))>>
          ELSE <<>>)
            \o forwards_of(Tail(wins))

\* list_forwards, from the list of windows on
list_forwards_listed(g, listed) ==
    IF listed.err # "none"
    THEN Out(g, Ret(listed.err), <<Call("list-windows", <<>>)>>)
    ELSE Out(g, [Ret("none") EXCEPT !.forwards = forwards_of(listed.windows)],
             <<Call("list-windows", <<>>)>>)

list_forwards(g, pn, fault) ==
    list_forwards_listed(g, list_windows(g, pn, fault = 1))

\* refresh_forward, from the outcome of the add_forward that recreates on
refresh_forward_added(c, added) ==
    Out(added.g,
        IF added.ret.err # "none" THEN Ret(added.ret.err)
        ELSE [Ret("none") EXCEPT !.value = TRUE],
        c \o added.calls)

\* refresh_forward putting the window back when the add_forward that
\* recreates it fails: the rollback C15 rules out
refresh_forward_rollback(pn, current_forward, host, identity, fault, c, removed) ==
    LET o == refresh_forward_added(c \o removed.calls,
                 add_forward(removed.g, pn, current_forward.direction,
                             current_forward.spec, host, identity,
                             IF fault > 2 THEN fault - 2 ELSE 0))
    IN  IF removed.ret.err # "none"
        THEN Out(removed.g, Ret(removed.ret.err), c \o removed.calls)
        ELSE IF o.ret.err = "none" THEN o
        ELSE Out([session |-> TRUE,
                  windows |-> o.g.windows
                      \o <<[name |-> current_forward.name,
                            command |-> current_forward.command]>>],
                 o.ret, o.calls)

\* refresh_forward, from the outcome of remove_forward on
refresh_forward_removed(pn, current_forward, host, identity, fault, c, removed) ==
    IF removed.ret.err # "none"
    THEN Out(removed.g, Ret(removed.ret.err), c \o removed.calls)
    ELSE refresh_forward_added(c \o removed.calls,
             add_forward(removed.g, pn, current_forward.direction,
                         current_forward.spec, host, identity,
                         IF fault > 2 THEN fault - 2 ELSE 0))

\* the identity refresh_forward extracts from the words of the command
identity_of(command_parts) ==
    LET identity_index == FirstIndex(command_parts, <<"-", "i">>)
    IN  IF identity_index # 0 /\ identity_index + 1 <= Len(command_parts)
        THEN command_parts[identity_index + 1] ELSE <<>>

\* refresh_forward removing the forward before it looks at the words of its
\* command: an order C13 rules out
refresh_forward_parts_late(g, pn, name, current_forward, fault, c, command_parts) ==
    IF Len(command_parts) < 2 \/ command_parts[1] # ssh
    THEN Out(remove_forward(g, name, 0).g, Ret("CannotParseCommand"),
             c \o remove_forward(g, name, 0).calls)
    ELSE refresh_forward_removed(pn, current_forward,
             command_parts[Len(command_parts)], identity_of(command_parts),
             fault, c, remove_forward(g, name, IF fault = 2 THEN 1 ELSE 0))

\* refresh_forward, from the words of the forward's command on
refresh_forward_parts(g, pn, name, current_forward, fault, c, command_parts) ==
    IF Len(command_parts) < 2 \/ command_parts[1] # ssh
    THEN Out(g, Ret("CannotParseCommand"), c)
    ELSE refresh_forward_removed(pn, current_forward,
             command_parts[Len(command_parts)], identity_of(command_parts),
             fault, c, remove_forward(g, name, IF fault = 2 THEN 1 ELSE 0))

\* refresh_forward removing the window of the name before it looks at the
\* list: an order C12 rules out
refresh_forward_found_late(g, pn, name, forwards, fault, c, found) ==
    IF found = 0
    THEN Out(remove_forward(g, name, 0).g, Ret("ForwardNotFound"),
             c \o remove_forward(g, name, 0).calls)
    ELSE refresh_forward_parts(g, pn, name, forwards[found], fault, c,
                               split_ws(forwards[found].command))

\* refresh_forward, from the place of the forward in the list on
refresh_forward_found(g, pn, name, forwards, fault, c, found) ==
    IF found = 0 THEN Out(g, Ret("ForwardNotFound"), c)
    ELSE refresh_forward_parts(g, pn, name, forwards[found], fault, c,
                               split_ws(forwards[found].command))

\* refresh_forward, from the list of forwards on
refresh_forward_listed(g, pn, name, fault, listing) ==
    IF listing.ret.err # "none" THEN listing
    ELSE refresh_forward_found(g, pn, name, listing.ret.forwards, fault,
             listing.calls,
             FirstIndex([n \in 1..Len(listing.ret.forwards) |->
                            listing.ret.forwards[n].name], name))

refresh_forward(g, pn, name, fault) ==
    refresh_forward_listed(g, pn, name, fault, list_forwards(g, pn, fault))

-----------------------------------------------------------------------------
(* session.py *)

\* has-session: any non-zero return code reads as "no such session"; only a
\* missing tmux raises
session_exists(g, fail) ==
    IF fail = "has-session missing" THEN [err |-> "TmuxError", value |-> FALSE]
    ELSE IF fail = "has-session error" THEN [err |-> "none", value |-> FALSE]
    ELSE [err |-> "none", value |-> g.session]

\* kill-session answering success and leaving the session as it is: `init
\* --force` under it recreates nothing, which C21 rules out
kill_session_sparing(g, fail) ==
    IF fail THEN [err |-> "TmuxError", g |-> g]
    ELSE [err |-> "none", g |-> g]

\* kill-session destroys the session with all its windows; a session already
\* gone counts as success
kill_session(g, fail) ==
    IF fail THEN [err |-> "TmuxError", g |-> g]
    ELSE [err |-> "none", g |-> [session |-> FALSE, windows |-> <<>>]]

-----------------------------------------------------------------------------
(* commands/remove.py and commands/refresh.py.  A command that ends by        *)
(* `return` exits 0; an exception reaching the outer handler is re-raised as  *)
(* a ClickException and exits 1.  `pre` is the hard failure met by the calls  *)
(* made before any forward is touched, `fault` the one met by the single      *)
(* forward's operation, each[i] the one met by the i-th forward of --all.     *)

Said(g, said, c) == Out(g, [Ret("none") EXCEPT !.said = said], c)

Raised(g, err, c) == Out(g, [Ret(err) EXCEPT !.exit = 1], c)

\* what a command reports of the forwards it went through
Done(g, said, count, total, failed, c) ==
    Out(g, [Ret("none") EXCEPT !.said = said, !.count = count,
                               !.total = total, !.failed = failed], c)

\* confirm_destructive_action
confirm_destructive_action(force, answer) == force \/ answer

\* the call both commands start with
has_session == <<Call("has-session", <<>>)>>

\* a loop over the forwards before its first iteration
Started(g) == [g |-> g, count |-> 0, failed |-> <<>>, calls |-> <<>>]

\* what the except clause of a loop prints for a forward
Failed(name, one) ==
    IF one.ret.err = "none" THEN <<>>
    ELSE <<[name |-> name, err |-> one.ret.err]>>

\* one iteration of the loop of `remove --all`
remove_each(acc, name, one) ==
    [g |-> one.g,
     count |-> acc.count + (IF one.ret.err = "none" THEN 1 ELSE 0),
     failed |-> acc.failed \o Failed(name, one),
     calls |-> acc.calls \o one.calls]

\* the loop of `remove --all` ending at the first removal that raises: what
\* C16 rules out
RECURSIVE remove_loop_abort(_, _, _, _)
remove_loop_abort(acc, forwards, each, i) ==
    IF i > Len(forwards) \/ (i > 1 /\ each[i - 1] # 0) THEN acc
    ELSE remove_loop_abort(
             remove_each(acc, forwards[i].name,
                         remove_forward(acc.g, forwards[i].name, each[i])),
             forwards, each, i + 1)

\* the loop of `remove --all` from the i-th listed forward on
RECURSIVE remove_loop(_, _, _, _)
remove_loop(acc, forwards, each, i) ==
    IF i > Len(forwards) THEN acc
    ELSE remove_loop(
             remove_each(acc, forwards[i].name,
                         remove_forward(acc.g, forwards[i].name, each[i])),
             forwards, each, i + 1)

\* remove NAME, from the outcome of remove_forward on
remove_removed(c, removed) ==
    IF removed.ret.err # "none"
    THEN Raised(removed.g, removed.ret.err, c \o removed.calls)
    ELSE Said(removed.g, "removed", c \o removed.calls)

\* remove --all, from the end of its loop on: "Successfully removed
\* {removed_count} forward(s)", a message that does not tell of how many
remove_all_removed(c, forwards, loop) ==
    Done(loop.g, "removed", loop.count, 0, loop.failed, c \o loop.calls)

\* remove NAME handing every name to remove_forward, listed or not: what C27
\* rules out
remove_listed_unchecked(g, name, remove_all, force, answer, fault, each, listing) ==
    IF listing.ret.err # "none"
    THEN Raised(g, listing.ret.err, has_session \o listing.calls)
    ELSE remove_removed(has_session \o listing.calls,
                        remove_forward(g, name, fault))

\* remove, from the list of forwards on
remove_listed(g, name, remove_all, force, answer, fault, each, listing) ==
    LET forwards == listing.ret.forwards
        c == has_session \o listing.calls
    IN  IF listing.ret.err # "none" THEN Raised(g, listing.ret.err, c)
        ELSE IF remove_all
        THEN IF forwards = <<>> THEN Said(g, "no forwards", c)
             ELSE IF ~ confirm_destructive_action(force, answer)
                  THEN Said(g, "cancelled", c)
                  ELSE remove_all_removed(c, forwards,
                           remove_loop(Started(g), forwards, each, 1))
        ELSE IF \A n \in 1..Len(forwards) : forwards[n].name # name
        THEN Said(g, "not found", c)
        ELSE remove_removed(c, remove_forward(g, name, fault))

\* remove --destroy-session, from the outcome of kill_session on
remove_destroyed(g, destroyed) ==
    IF destroyed.err # "none"
    THEN Raised(g, destroyed.err, has_session \o <<Call("kill-session", <<>>)>>)
    ELSE Said(destroyed.g, "destroyed",
              has_session \o <<Call("kill-session", <<>>)>>)

\* remove, from the answer of session_exists on
remove_session(g, pn, name, remove_all, force, destroy, answer, pre, fault, each, has) ==
    IF has.err # "none" THEN Raised(g, has.err, has_session)
    ELSE IF ~ has.value THEN Said(g, "session not active", has_session)
    ELSE IF destroy
    THEN IF ~ confirm_destructive_action(force, answer)
         THEN Said(g, "cancelled", has_session)
         ELSE remove_destroyed(g, kill_session(g, fault = 1))
    ELSE remove_listed(g, name, remove_all, force, answer, fault, each,
             list_forwards(g, pn, IF pre = "list-windows" THEN 1 ELSE 0))

remove(g, pn, name, remove_all, force, destroy_session, answer, pre, fault, each) ==
    IF ~ remove_all /\ ~ destroy_session /\ name = <<>>
    THEN Raised(g, "UsageError", <<>>)
    ELSE remove_session(g, pn, name, remove_all, force, destroy_session,
                        answer, pre, fault, each, session_exists(g, pre))

\* one iteration of the loop of `refresh --all`; it sleeps after a refresh
\* that did not raise, unless that forward is the last
refresh_each(acc, name, one, more, delay) ==
    [g |-> one.g,
     count |-> acc.count + (IF one.ret.err = "none" THEN 1 ELSE 0),
     failed |-> acc.failed \o Failed(name, one),
     calls |-> acc.calls \o <<Call("refresh_forward", name)>> \o one.calls
                   \o (IF one.ret.err = "none" /\ more /\ delay > 0
                       THEN <<Call("sleep", <<>>)>> ELSE <<>>)]

\* the loop of `refresh --all` ending at the first refresh that raises: what
\* C17 rules out
RECURSIVE refresh_loop_abort(_, _, _, _, _, _)
refresh_loop_abort(acc, pn, forwards, delay, each, i) ==
    IF i > Len(forwards) \/ acc.failed # <<>> THEN acc
    ELSE refresh_loop_abort(
             refresh_each(acc, forwards[i].name,
                 refresh_forward(acc.g, pn, forwards[i].name, each[i]),
                 i < Len(forwards), delay),
             pn, forwards, delay, each, i + 1)

\* the loop of `refresh --all` from the i-th listed forward on
RECURSIVE refresh_loop(_, _, _, _, _, _)
refresh_loop(acc, pn, forwards, delay, each, i) ==
    IF i > Len(forwards) THEN acc
    ELSE refresh_loop(
             refresh_each(acc, forwards[i].name,
                 refresh_forward(acc.g, pn, forwards[i].name, each[i]),
                 i < Len(forwards), delay),
             pn, forwards, delay, each, i + 1)

\* refresh NAME, from the outcome of refresh_forward on
refresh_refreshed(c, refreshed) ==
    IF refreshed.ret.err # "none"
    THEN Raised(refreshed.g, refreshed.ret.err, c \o refreshed.calls)
    ELSE Said(refreshed.g, "refreshed", c \o refreshed.calls)

\* refresh --all, from the end of its loop on: "Successfully refreshed
\* {refreshed_count}/{len(forwards)} forward(s)"
refresh_all_refreshed(c, forwards, loop) ==
    Done(loop.g, "refreshed", loop.count, Len(forwards), loop.failed,
         c \o loop.calls)

\* refresh, from the list of forwards on
refresh_listed(g, pn, name, refresh_all, delay, fault, each, listing) ==
    LET forwards == listing.ret.forwards
        c == has_session \o listing.calls
    IN  IF listing.ret.err # "none" THEN Raised(g, listing.ret.err, c)
        ELSE IF refresh_all
        THEN IF forwards = <<>> THEN Said(g, "no forwards", c)
             ELSE refresh_all_refreshed(c, forwards,
                      refresh_loop(Started(g), pn, forwards, delay, each, 1))
        ELSE IF \A n \in 1..Len(forwards) : forwards[n].name # name
        THEN Said(g, "not found", c)
        ELSE refresh_refreshed(c, refresh_forward(g, pn, name, fault))

\* refresh, from the answer of session_exists on
refresh_session(g, pn, name, refresh_all, delay, pre, fault, each, has) ==
    IF has.err # "none" THEN Raised(g, has.err, has_session)
    ELSE IF ~ has.value THEN Said(g, "session not active", has_session)
    ELSE refresh_listed(g, pn, name, refresh_all, delay, fault, each,
             list_forwards(g, pn, IF pre = "list-windows" THEN 1 ELSE 0))

refresh(g, pn, name, refresh_all, delay, pre, fault, each) ==
    IF ~ refresh_all /\ name = <<>> THEN Raised(g, "UsageError", <<>>)
    ELSE refresh_session(g, pn, name, refresh_all, delay, pre, fault, each,
                         session_exists(g, pre))

-----------------------------------------------------------------------------
(* The inputs the operations are invoked with. *)

Directions == {L, R, <<"X">>}

\* a valid spec, a valid spec whose host field holds the '|' of the listing
\* format, a port out of range, a missing field
AddSpecs ==
    { <<"1", ":", "h", ":", "2">>,
      <<"1", ":", "a", "|", "b", ":", "2">>,
      <<"0", ":", "h", ":", "2">>,
      <<"1", ":", "h">> }

\* the SSH target and the identity file: [host, identity]; the last target
\* is a host given together with an option of ssh, in two words
Targets ==
    { [host |-> <<"u">>, identity |-> <<>>],
      [host |-> <<"v">>, identity |-> <<>>],
      [host |-> <<"u">>, identity |-> <<"k">>],
      [host |-> <<"u", " ", "w">>, identity |-> <<>>] }

\* windows a session may hold before any forward is added: the shell window
\* tmux opens a session with, then possibly a window whose name starts with L
\* and has its colon later, a window named like a forward that runs no ssh, or
\* a window named like a forward of no direction and of a spec short of a field
ShellWindow == [name |-> <<"s", "h">>, command |-> <<"s", "h">>]

LogWindow ==
    [name |-> <<"L", "o", "g", ":", "1">>, command |-> <<"t", "o", "p">>]

StaleWindow ==
    [name |-> <<"R", ":", "7", ":", "h", ":", "7">>,
     command |-> <<"t", "o", "p">>]

OddWindow ==
    [name |-> <<"X", ":", "1", ":", "h">>, command |-> <<"t", "o", "p">>]

\* a forward started by hand, of a port that parse_port_spec rejects
HandWindow ==
    [name |-> <<"R", ":", "0", ":", "h", ":", "2">>,
     command |-> <<"s", "s", "h", " ", "-", "N", " ", "-", "R", " ",
                   "0", ":", "h", ":", "2", " ", "u">>]

InitialWindows ==
    {<<ShellWindow>>, <<ShellWindow, LogWindow>>, <<ShellWindow, StaleWindow>>,
     <<ShellWindow, OddWindow>>, <<ShellWindow, HandWindow>>}

\* the names remove and refresh are invoked with: those of the windows there
\* are, those tmux lists, and those of forwards that may not be there
TargetNames ==
    {windows[n].name : n \in 1..Len(windows)}
        \cup {WindowName(L, s) : s \in AddSpecs}
        \cup {<<"L", ":", "1", ":", "a">>}

\* the hard failures a loop over n forwards meets: each[i] is the number of the
\* tmux call of the i-th iteration that fails (0: none), of ncalls calls, with
\* at most MaxFaults iterations failing
FaultPlans(n, ncalls) ==
    {each \in [1..n -> 0..ncalls] :
        Cardinality({i \in 1..n : each[i] # 0}) <= MaxFaults}

\* no iteration fails
NoFaults(n) == [i \in 1..n |-> 0]

PreFaults == {"none", "has-session error", "has-session missing", "list-windows"}

-----------------------------------------------------------------------------
(* The state machine: one invocation at a time.  An invocation runs to its  *)
(* end in one step and leaves its arguments, its result and its tmux calls   *)
(* to be read; Return hands control back, and the next invocation follows.   *)

G == [session |-> session, windows |-> windows]

Idle ==
    /\ op = NoOp
    /\ ret = Ret("none")
    /\ calls = <<>>
    /\ before = [session |-> FALSE, windows |-> <<>>]

Init ==
    /\ session \in BOOLEAN
    /\ windows \in (IF session THEN InitialWindows ELSE {<<>>})
    /\ pane \in {"command line", "process name"}
    /\ Idle

\* the invocation ends as o says
Apply(invocation, o) ==
    /\ op = NoOp
    /\ session' = o.g.session
    /\ windows' = o.g.windows
    /\ op' = invocation
    /\ ret' = o.ret
    /\ calls' = o.calls
    /\ before' = G
    /\ UNCHANGED pane

Return ==
    /\ op # NoOp
    /\ op' = NoOp
    /\ ret' = Ret("none")
    /\ calls' = <<>>
    /\ before' = [session |-> FALSE, windows |-> <<>>]
    /\ UNCHANGED <<session, windows, pane>>

ListWindows ==
    \E f \in 0..1 :
        LET listed == list_windows(G, pane, f = 1)
        IN  Apply([NoOp EXCEPT !.name = "list_windows", !.fault = f],
                  Out(G, [Ret(listed.err) EXCEPT !.forwards = listed.windows],
                      <<Call("list-windows", <<>>)>>))

WindowExists ==
    \E name \in TargetNames, f \in 0..1 :
        LET exists == window_exists(G, pane, name, f = 1)
        IN  Apply([NoOp EXCEPT !.name = "window_exists", !.target = name,
                               !.fault = f],
                  Out(G, [Ret(exists.err) EXCEPT !.value = exists.value],
                      <<Call("list-windows", <<>>)>>))

\* the session never grows beyond MaxWindows windows
AddForward ==
    /\ op = NoOp
    /\ \E d \in Directions, s \in AddSpecs, t \in Targets, f \in 0..2 :
        \E o \in {add_forward(G, pane, d, s, t.host, t.identity, f)} :
            /\ Len(o.g.windows) <= MaxWindows
            /\ Apply([NoOp EXCEPT !.name = "add_forward", !.direction = d,
                                  !.spec = s, !.host = t.host,
                                  !.identity = t.identity, !.fault = f], o)

RemoveForward ==
    \E name \in TargetNames, f \in 0..1 :
        Apply([NoOp EXCEPT !.name = "remove_forward", !.target = name,
                           !.fault = f],
              remove_forward(G, name, f))

ListForwards ==
    \E f \in 0..1 :
        Apply([NoOp EXCEPT !.name = "list_forwards", !.fault = f],
              list_forwards(G, pane, f))

RefreshForward ==
    \E name \in TargetNames, f \in 0..4 :
        Apply([NoOp EXCEPT !.name = "refresh_forward", !.target = name,
                           !.fault = f],
              refresh_forward(G, pane, name, f))

\* the forwards a command lists at its start
Listed == list_forwards(G, pane, 0).ret.forwards

RemoveAll ==
    /\ op = NoOp
    /\ \E n \in {Len(Listed)} :
        \E force \in BOOLEAN, answer \in BOOLEAN, pre \in PreFaults,
           each \in FaultPlans(n, 1) :
            /\ pre # "none" \/ ~ (force \/ answer) => each = NoFaults(n)
            /\ Apply([NoOp EXCEPT !.name = "remove --all", !.force = force,
                                  !.answer = answer, !.pre = pre,
                                  !.each = each],
                     remove(G, pane, <<>>, TRUE, force, FALSE, answer, pre, 0,
                            each))

RefreshAll ==
    /\ op = NoOp
    /\ \E n \in {Len(Listed)} :
        \E delay \in 0..1, pre \in PreFaults, each \in FaultPlans(n, 4) :
            /\ pre # "none" => each = NoFaults(n)
            /\ Apply([NoOp EXCEPT !.name = "refresh --all", !.delay = delay,
                                  !.pre = pre, !.each = each],
                     refresh(G, pane, <<>>, TRUE, delay, pre, 0, each))

\* `remove NAME`, and `remove` without a name
RemoveNamed ==
    /\ op = NoOp
    /\ \E name \in TargetNames \cup {<<>>}, pre \in PreFaults, f \in 0..1 :
        /\ pre # "none" \/ name = <<>> => f = 0
        /\ name = <<>> => pre = "none"
        /\ Apply([NoOp EXCEPT !.name = "remove NAME", !.target = name,
                              !.pre = pre, !.fault = f],
                 remove(G, pane, name, FALSE, FALSE, FALSE, FALSE, pre, f,
                        <<>>))

\* `refresh NAME`, and `refresh` without a name
RefreshNamed ==
    /\ op = NoOp
    /\ \E name \in TargetNames \cup {<<>>}, pre \in PreFaults, f \in 0..4,
          delay \in 0..1 :
        /\ pre # "none" \/ name = <<>> => f = 0 /\ delay = 0
        /\ name = <<>> => pre = "none"
        /\ Apply([NoOp EXCEPT !.name = "refresh NAME", !.target = name,
                              !.delay = delay, !.pre = pre, !.fault = f],
                 refresh(G, pane, name, FALSE, delay, pre, f, <<>>))

Next ==
    \/ ListWindows
    \/ WindowExists
    \/ AddForward
    \/ RemoveForward
    \/ ListForwards
    \/ RefreshForward
    \/ RemoveAll
    \/ RefreshAll
    \/ RemoveNamed
    \/ RefreshNamed
    \/ Return

Spec == Init /\ [][Next]_vars

-----------------------------------------------------------------------------
(* parse_port_spec and the window names on their own: the functions applied  *)
(* to every short string over a few characters and to specs put together     *)
(* from ports at and beyond the limits.                                      *)

\* every string of at most MaxLen characters over the alphabet
ShortStrings ==
    UNION {[1..n -> {"0", "1", ":", "h"}] : n \in 0..MaxLen}

Ports ==
    { <<"1">>, <<"6", "5", "5", "3", "5">>, <<"6", "5", "5", "3", "6">>,
      <<"0", "0", "0", "0", "1">>, <<"9", "9", "9", "9", "9">>,
      <<"1", "0", "0", "0", "0", "0">> }

Hosts == {<<"h">>, <<"a", "|", "b">>}

Tails == {<<>>, <<NL>>, <<":", "3">>, <<" ">>}

LongSpecs ==
    {p \o <<":">> \o h \o <<":">> \o q \o e :
        p \in Ports, h \in Hosts, q \in Ports, e \in Tails}

ParseInputs == ShortStrings \cup LongSpecs

InitParse ==
    /\ session = FALSE
    /\ windows = <<>>
    /\ pane = "command line"
    /\ Idle

ParsePortSpec ==
    /\ op = NoOp
    /\ \E s \in ParseInputs :
        Apply([NoOp EXCEPT !.name = "parse_port_spec", !.spec = s],
              Out(G, parse_port_spec(s), <<>>))

\* the name add_forward gives the window of an accepted spec, read back by
\* list_forwards
NameWindow ==
    /\ op = NoOp
    /\ \E d \in {L, R}, s \in ParseInputs :
        /\ parse_port_spec(s).err = "none"
        /\ Apply([NoOp EXCEPT !.name = "window name", !.direction = d,
                              !.spec = s],
                 Out(G, [Ret("none") EXCEPT
                            !.name = WindowName(d, s),
                            !.forwards =
                                forwards_of(<<[name |-> WindowName(d, s),
                                               status |-> <<>>,
                                               command |-> ssh]>>)],
                     <<>>))

NextParse == ParsePortSpec \/ NameWindow \/ Return

SpecParse == InitParse /\ [][NextParse]_vars

-----------------------------------------------------------------------------
(* What the specification says of the forwards, stated over the invocation   *)
(* that has just ended: its arguments (op), its result (ret), its tmux calls *)
(* (calls), the session before it (before) and after it (session, windows).  *)

\* the value of a string of decimal digits
RECURSIVE Decimal(_)
Decimal(f) ==
    IF f = <<>> THEN 0
    ELSE 10 * Decimal(SubSeq(f, 1, Len(f) - 1)) + DigitVal(f[Len(f)])

\* 1 to 5 decimal digits with a value in [1, 65535]
IsPort(f) ==
    /\ Len(f) \in 1..5
    /\ \A i \in 1..Len(f) : f[i] \in Digits
    /\ Decimal(f) \in 1..65535

\* the places of the colons of s
Colons(s) == {i \in 1..Len(s) : s[i] = ":"}

\* s is port:token:port, with the fields the grammar gives it
FieldsAt(s, i, j) ==
    <<SubSeq(s, 1, i - 1), SubSeq(s, i + 1, j - 1), SubSeq(s, j + 1, Len(s))>>

WellFormedSpec(s) ==
    \E i \in 1..Len(s), j \in 1..Len(s) :
        /\ i < j
        /\ Colons(s) = {i, j}
        /\ IsPort(FieldsAt(s, i, j)[1])
        /\ FieldsAt(s, i, j)[2] # <<>>
        /\ IsPort(FieldsAt(s, i, j)[3])

\* "{direction}:{spec}", the encoded name of a forward
EncodedName(d, s) == d \o <<":">> \o s

\* the invocation issued a tmux call of this kind
Issued(cmd) == \E n \in 1..Len(calls) : calls[n].cmd = cmd

\* the invocation left the session as it found it
SessionUntouched == session = before.session /\ windows = before.windows

\* an add_forward of a well-formed forward that no tmux call failed hard
AddedWellFormed ==
    /\ op.name = "add_forward"
    /\ op.fault = 0
    /\ op.direction \in {L, R}
    /\ WellFormedSpec(op.spec)

\* a window of the session the add_forward found carries the name it encodes
NameTaken ==
    \E n \in 1..Len(before.windows) :
        before.windows[n].name = EncodedName(op.direction, op.spec)

\* C1: in every state the sequential operations reach from a session whose
\* window names are all different, no two windows carry the same encoded
\* forward name "{direction}:{spec}".
C1_UniqueForwardNames ==
    \A i \in 1..Len(windows), j \in 1..Len(windows) :
        /\ windows[i].name = windows[j].name
        /\ \E d \in {L, R} :
              /\ Len(windows[i].name) >= 2
              /\ SubSeq(windows[i].name, 1, 2) = d \o <<":">>
        => i = j

\* C2: add_forward of a direction and spec whose encoded name a window of the
\* session carries fails with the duplicate error, issues no new-window call
\* and leaves the session as it was.
C2_DuplicateRejected ==
    AddedWellFormed /\ NameTaken
        => /\ ret.err = "DuplicateForward"
           /\ ~ Issued("new-window")
           /\ SessionUntouched

\* the ssh command line the specification gives a forward
ExpectedCommand(d, s, h, i) ==
    <<"s", "s", "h", " ", "-", "N", " ", "-">> \o d \o <<" ">> \o s
        \o (IF i # <<>> THEN <<" ", "-", "i", " ">> \o i ELSE <<>>)
        \o <<" ">> \o h

\* the name is taken by a window that runs another command than the one this
\* add_forward would give it: another host, or another identity
TakenForOtherTarget ==
    \E n \in 1..Len(before.windows) :
        /\ before.windows[n].name = EncodedName(op.direction, op.spec)
        /\ before.windows[n].command
               # ExpectedCommand(op.direction, op.spec, op.host, op.identity)

\* the session holds the windows it held, then one of the encoded name
AddedBeside ==
    /\ Len(windows) = Len(before.windows) + 1
    /\ SubSeq(windows, 1, Len(before.windows)) = before.windows
    /\ windows[Len(windows)].name = EncodedName(op.direction, op.spec)

\* C3: the duplicate key of add_forward is (direction, spec) alone: an add of
\* a name taken by a forward to another host or with another identity is
\* rejected as a duplicate, and an add of a name not taken, whatever the
\* other direction holds, is accepted and leaves the new forward beside the
\* windows there were.
C3_KeyIsDirectionAndSpec ==
    /\ (AddedWellFormed /\ TakenForOtherTarget)
           => (ret.err = "DuplicateForward" /\ SessionUntouched)
    /\ (AddedWellFormed /\ before.session /\ ~ NameTaken)
           => (ret.err = "none" /\ AddedBeside)

\* C4: a successful add_forward of direction d, spec s, host h and identity i
\* returns "d:s" and creates exactly one window, of that name, whose command
\* is "ssh -N -d s h", or "ssh -N -d s -i i h" when an identity is given.
C4_AddCreatesCommand ==
    op.name = "add_forward" /\ ret.err = "none"
        => /\ op.direction \in {L, R}
           /\ WellFormedSpec(op.spec)
           /\ ret.name = EncodedName(op.direction, op.spec)
           /\ windows = before.windows
                 \o <<[name |-> EncodedName(op.direction, op.spec),
                       command |-> ExpectedCommand(op.direction, op.spec,
                                                   op.host, op.identity)]>>
           /\ Cardinality({n \in 1..Len(calls) :
                              calls[n].cmd = "new-window"}) = 1

\* an identity was given, the add succeeded
C4_Witness ==
    /\ op.name = "add_forward"
    /\ ret.err = "none"
    /\ op.identity # <<>>
    /\ op.direction = R

\* C5: add_forward reports an invalid direction first, whatever the spec and
\* the windows are, an invalid spec second, a duplicate only of a valid
\* direction and spec; the first two are reported without any tmux call and
\* with the session unchanged.
C5_CheckOrder ==
    op.name = "add_forward"
        => /\ op.direction \notin {L, R}
              => /\ ret.err = "InvalidDirection"
                 /\ calls = <<>>
                 /\ SessionUntouched
           /\ op.direction \in {L, R} /\ ~ WellFormedSpec(op.spec)
              => ret.err = "InvalidPortSpec" /\ calls = <<>> /\ SessionUntouched
           /\ ret.err = "DuplicateForward"
              => /\ op.direction \in {L, R}
                 /\ WellFormedSpec(op.spec)
                 /\ ~ Issued("new-window")

\* an add of no direction and of a spec short of a field, under the name of a
\* window there is
C5_Witness ==
    /\ op.name = "add_forward"
    /\ op.direction \notin {L, R}
    /\ ~ WellFormedSpec(op.spec)
    /\ NameTaken
    /\ ret.err = "InvalidDirection"

\* C6: parse_port_spec accepts a string if and only if it is three fields
\* between two colons, the first and the third 1 to 5 decimal digits of a
\* value in [1, 65535] and the second not empty; it rejects every other
\* string with an error, and it yields the three fields of a string it accepts.
C6_AcceptsWellFormedOnly ==
    op.name = "parse_port_spec"
        => /\ ret.err = "none" <=> WellFormedSpec(op.spec)
           /\ ret.err # "none" => ret.err = "InvalidPortSpec"
           /\ ret.err = "none"
              => \E i \in 1..Len(op.spec), j \in 1..Len(op.spec) :
                    ret.parsed = FieldsAt(op.spec, i, j)

\* C7: the window name add_forward builds from a direction d and an accepted
\* spec s is decoded by list_forwards to the direction d and the spec s, in a
\* descriptor whose name is the encoded name.
C7_NameRoundTrip ==
    op.name = "window name"
        => /\ ret.name = EncodedName(op.direction, op.spec)
           /\ Len(ret.forwards) = 1
           /\ ret.forwards[1].name = EncodedName(op.direction, op.spec)
           /\ ret.forwards[1].direction = op.direction
           /\ ret.forwards[1].spec = op.spec

\* the name of a remote forward between ports of five digits was decoded
C7_Witness ==
    /\ op.name = "window name"
    /\ op.direction = R
    /\ Len(op.spec) >= 13
    /\ Len(ret.forwards) = 1

\* the windows the gateway lists for the session as it is
GatewayListing == list_windows(G, pane, FALSE).windows

\* the first character is L or R and the second is ':'
HasForwardPrefix(name) ==
    Len(name) >= 2 /\ name[1] \in {"L", "R"} /\ name[2] = ":"

\* C8: list_forwards returns a window as a forward if and only if the first
\* character of its name is L or R and the second is ':'.
C8_ForwardIffPrefix ==
    op.name = "list_forwards" /\ ret.err = "none"
        => \A n \in 1..Len(GatewayListing) :
              (\E m \in 1..Len(ret.forwards) :
                    ret.forwards[m].name = GatewayListing[n].name)
                  <=> HasForwardPrefix(GatewayListing[n].name)

\* the descriptor carries the window's name, status and command
SameWindow(forward, window) ==
    /\ forward.name = window.name
    /\ forward.status = window.status
    /\ forward.command = window.command

\* C9: the forwards list_forwards returns are windows of the gateway's
\* listing, in the order of the listing, none twice, none with the forward
\* prefix left out, each with the window's status and command unchanged.
C9_ListingOrderKept ==
    op.name = "list_forwards" /\ ret.err = "none"
        => \E pos \in [1..Len(ret.forwards) -> 1..Len(GatewayListing)] :
              /\ \A a \in 1..Len(ret.forwards), b \in 1..Len(ret.forwards) :
                    a < b => pos[a] < pos[b]
              /\ \A m \in 1..Len(ret.forwards) :
                    SameWindow(ret.forwards[m], GatewayListing[pos[m]])
              /\ \A n \in 1..Len(GatewayListing) :
                    HasForwardPrefix(GatewayListing[n].name)
                        => \E m \in 1..Len(ret.forwards) : pos[m] = n

\* two forwards were listed, of different status
C9_Witness ==
    /\ op.name = "list_forwards"
    /\ ret.err = "none"
    /\ Len(ret.forwards) = 2
    /\ ret.forwards[1].status # ret.forwards[2].status
    /\ ret.forwards[1].name # ret.forwards[2].name

\* C10: on a session that does not exist list_forwards and list_windows
\* return the empty sequence and window_exists returns False, without an
\* error; they raise the tmux error when, and only when, tmux fails otherwise.
C10_AbsentSessionIsEmpty ==
    op.name \in {"list_forwards", "list_windows", "window_exists"}
        => /\ ret.err = (IF op.fault = 0 THEN "none" ELSE "TmuxError")
           /\ ~ before.session
              => ret.forwards = <<>> /\ ret.value = FALSE /\ SessionUntouched

\* list_forwards was asked of a session that does not exist, and tmux
\* answered that it is not found
C10_Witness ==
    /\ op.name = "list_forwards"
    /\ op.fault = 0
    /\ ~ before.session
    /\ ret.err = "none"
    /\ calls # <<>>

-----------------------------------------------------------------------------
(* remove_forward and refresh_forward *)

\* the windows of the session that carry the name, before the invocation
Carried(name) ==
    {n \in 1..Len(before.windows) : before.windows[n].name = name}

\* C11: remove_forward of a name that no window carries returns True and
\* changes nothing, so that a second remove behaves as the first; after a
\* remove of the one window that carries the name, no window carries it.
C11_RemoveIdempotent ==
    op.name = "remove_forward" /\ op.fault = 0
        => /\ Carried(op.target) = {}
              => ret.err = "none" /\ ret.value = TRUE /\ SessionUntouched
           /\ Cardinality(Carried(op.target)) = 1
              => /\ ret.err = "none" /\ ret.value = TRUE
                 /\ \A n \in 1..Len(windows) : windows[n].name # op.target

\* the forwards list_forwards returns for the session the invocation found
ForwardsBefore == list_forwards(before, pane, 0).ret.forwards

\* the place of the name among them, 0 when it is not there
PlaceBefore(name) ==
    FirstIndex([n \in 1..Len(ForwardsBefore) |-> ForwardsBefore[n].name], name)

\* a refresh_forward whose first call, the listing, did not fail hard
Refreshed == op.name = "refresh_forward" /\ op.fault # 1

\* C12: refresh_forward of a name that is not the name of a forward of the
\* current list_forwards result fails with the not-found error, issues neither
\* a kill-window nor a new-window call, and leaves the windows as they were.
C12_RefreshNotFound ==
    Refreshed /\ PlaceBefore(op.target) = 0
        => /\ ret.err = "ForwardNotFound"
           /\ ~ Issued("kill-window")
           /\ ~ Issued("new-window")
           /\ SessionUntouched

\* the name refreshed is the name of a window of the session, which is not a
\* forward of the list
C12_Witness ==
    /\ Refreshed
    /\ before.session
    /\ Carried(op.target) # {}
    /\ PlaceBefore(op.target) = 0
    /\ ret.err = "ForwardNotFound"
    /\ calls = <<Call("list-windows", <<>>)>>

\* the whitespace-separated tokens of the listed command of the forward that
\* the refresh_forward found under its name
TokensBefore ==
    IF PlaceBefore(op.target) = 0 THEN <<>>
    ELSE split_ws(ForwardsBefore[PlaceBefore(op.target)].command)

\* fewer than two tokens, or a first token that is not "ssh"
NotAnSshCommand(tokens) ==
    IF Len(tokens) < 2 THEN TRUE ELSE tokens[1] # <<"s", "s", "h">>

\* C13: refresh_forward of a listed forward whose command has fewer than two
\* tokens, or a first token other than "ssh", fails with the cannot-parse
\* error before any removal: no kill-window call, the forward still listed.
C13_RefreshCannotParse ==
    Refreshed /\ PlaceBefore(op.target) # 0 /\ NotAnSshCommand(TokensBefore)
        => /\ ret.err = "CannotParseCommand"
           /\ ~ Issued("kill-window")
           /\ SessionUntouched
           /\ \E n \in 1..Len(forwards_of(GatewayListing)) :
                forwards_of(GatewayListing)[n].name = op.target

\* the forward was created by add_forward and runs ssh, but the listing shows
\* the name of its process only: one token
C13_Witness ==
    /\ Refreshed
    /\ PlaceBefore(op.target) # 0
    /\ TokensBefore = << <<"s", "s", "h">> >>
    /\ ret.err = "CannotParseCommand"
    /\ \E n \in 1..Len(windows) :
        windows[n].name = op.target /\ Len(split_ws(windows[n].command)) > 2

\* the window the refresh_forward found under its name: the one window of the
\* session that carries the name, when the listing shows its command line as
\* add_forward built it
RefreshedBuilt(n) ==
    /\ Refreshed
    /\ op.fault = 0
    /\ PlaceBefore(op.target) # 0
    /\ Carried(op.target) = {n}
    /\ ForwardsBefore[PlaceBefore(op.target)].command = before.windows[n].command
    /\ \E t \in Targets :
        before.windows[n].command
            = ExpectedCommand(<<op.target[1]>>, SliceFrom(op.target, 2),
                              t.host, t.identity)

\* C14: when the listed command of a forward is the command line add_forward
\* built for it, a successful refresh_forward leaves a window of the same
\* name and the same command line, after the other windows of the session.
C14_RefreshRoundTrip ==
    \A n \in 1..Len(before.windows) :
        RefreshedBuilt(n) /\ ret.err = "none"
            => windows = SelectIdx(before.windows,
                                   (1..Len(before.windows)) \ {n})
                            \o <<before.windows[n]>>

-----------------------------------------------------------------------------
(* remove --all and refresh --all *)

\* the tmux calls of one kind that the invocation issued, in their order
CallsOf(cmd) ==
    SelectIdx(calls, {n \in 1..Len(calls) : calls[n].cmd = cmd})

\* the iterations of the loop in which no tmux call failed hard
Unfailed == {i \in 1..Len(op.each) : op.each[i] = 0}

\* a confirmed `remove --all` that found the session and listed forwards
RemovedAll ==
    /\ op.name = "remove --all"
    /\ op.pre = "none"
    /\ op.force \/ op.answer
    /\ ForwardsBefore # <<>>

\* every listed forward had its kill-window call, once and in listing order
EachKilledOnce ==
    /\ Len(CallsOf("kill-window")) = Len(ForwardsBefore)
    /\ \A i \in 1..Len(ForwardsBefore) :
        CallsOf("kill-window")[i].target = ForwardsBefore[i].name

\* the windows of the forwards whose removal did not raise are gone
UnfailedGone ==
    \A i \in Unfailed :
        Cardinality(Carried(ForwardsBefore[i].name)) = 1
            => \A n \in 1..Len(windows) :
                windows[n].name # ForwardsBefore[i].name

\* C16: a confirmed `remove --all` over the N forwards listed at its start
\* attempts the removal of each once in listing order, goes on after a
\* removal that raises, removes the others, ends normally and reports as its
\* count the number of removals that did not raise; the message gives that
\* count alone, not the number N of forwards.
C16_RemoveAllCounts ==
    RemovedAll
        => /\ EachKilledOnce
           /\ UnfailedGone
           /\ ret.err = "none" /\ ret.exit = 0 /\ ret.said = "removed"
           /\ ret.count = Cardinality(Unfailed)
           /\ ret.total = 0

\* C16 as the claim words it: the count is reported as (N-1)/N, a count of
\* the N forwards
C16_RemoveAllCountsOfTotal ==
    RemovedAll
        => /\ EachKilledOnce
           /\ UnfailedGone
           /\ ret.err = "none" /\ ret.exit = 0
           /\ ret.count = Cardinality(Unfailed)
           /\ ret.total = Len(ForwardsBefore)

\* of two forwards the removal of the first raised, and the second was
\* removed all the same
C16_Witness ==
    /\ RemovedAll
    /\ Len(ForwardsBefore) = 2
    /\ op.each[1] # 0 /\ op.each[2] = 0
    /\ ret.count = 1
    /\ Carried(ForwardsBefore[2].name) # {}
    /\ \A n \in 1..Len(windows) : windows[n].name # ForwardsBefore[2].name

-----------------------------------------------------------------------------
(* refresh_forward between its removal and its re-add *)

\* the errors add_forward raises
AddErrors ==
    {"InvalidDirection", "InvalidPortSpec", "DuplicateForward", "TmuxError"}

\* the refresh_forward removed the one window that carried the name, and the
\* add_forward that followed raised
ReAddFailed(n) ==
    /\ op.name = "refresh_forward"
    /\ Carried(op.target) = {n}
    /\ Issued("kill-window")
    /\ op.fault # 2
    /\ ret.err # "none"

\* C15: refresh_forward kills the old window before it attempts the re-add;
\* when the re-add then fails, its error reaches the caller and the forward is
\* left absent: the session holds the other windows, and nothing is put back.
C15_RefreshNotTransactional ==
    /\ op.name = "refresh_forward" /\ Issued("kill-window")
        => /\ calls[1].cmd = "list-windows"
           /\ calls[2] = Call("kill-window", op.target)
           /\ \A n \in 3..Len(calls) :
                calls[n].cmd \in {"list-windows", "new-window"}
    /\ \A n \in 1..Len(before.windows) :
        ReAddFailed(n)
            => /\ ret.err \in AddErrors
               /\ ret.value = FALSE
               /\ windows = SelectIdx(before.windows,
                                      (1..Len(before.windows)) \ {n})
               /\ Len(CallsOf("new-window")) <= 1

\* the new-window call of the re-add failed: the forward that was there is
\* gone, the other window of the session is still there
C15_Witness ==
    /\ \E n \in 1..Len(before.windows) : ReAddFailed(n)
    /\ op.fault = 4
    /\ ret.err = "TmuxError"
    /\ Issued("new-window")
    /\ Len(windows) = 1
    /\ windows[1].name # op.target

\* a `refresh --all` that found the session and listed forwards
RefreshedAll ==
    /\ op.name = "refresh --all"
    /\ op.pre = "none"
    /\ ForwardsBefore # <<>>

\* every listed forward had its call of refresh_forward, once and in listing
\* order
EachRefreshedOnce ==
    /\ Len(CallsOf("refresh_forward")) = Len(ForwardsBefore)
    /\ \A i \in 1..Len(ForwardsBefore) :
        CallsOf("refresh_forward")[i].target = ForwardsBefore[i].name

\* the forwards reported as failed are listed forwards, in listing order
FailedAreListed ==
    \E pos \in [1..Len(ret.failed) -> 1..Len(ForwardsBefore)] :
        /\ \A i \in 1..Len(ret.failed) :
            ret.failed[i].name = ForwardsBefore[pos[i]].name
        /\ \A i, j \in 1..Len(ret.failed) : i < j => pos[i] < pos[j]

\* C17: `refresh --all` over the N forwards listed at its start calls
\* refresh_forward for each of them once in listing order; a refresh that
\* raises is reported and the loop goes on; the command ends normally and
\* reports refreshed_count/N, refreshed_count being the number of refreshes
\* that did not raise: none of them when the listing shows process names, and
\* none that met a failing listing.
C17_RefreshAllCounts ==
    RefreshedAll
        => /\ EachRefreshedOnce
           /\ FailedAreListed
           /\ ret.err = "none" /\ ret.exit = 0 /\ ret.said = "refreshed"
           /\ ret.total = Len(ForwardsBefore)
           /\ ret.count = Len(ForwardsBefore) - Len(ret.failed)
           /\ pane = "process name" => ret.count = 0
           /\ \A i \in 1..Len(op.each) :
                op.each[i] = 1
                    => \E k \in 1..Len(ret.failed) :
                        /\ ret.failed[k].name = ForwardsBefore[i].name
                        /\ ret.failed[k].err = "TmuxError"

\* of two forwards the refresh of the first raised, the second was refreshed
\* all the same, and 1/2 is reported
C17_Witness ==
    /\ RefreshedAll
    /\ Len(ForwardsBefore) = 2
    /\ Len(ret.failed) = 1
    /\ ret.failed[1].name = ForwardsBefore[1].name
    /\ ret.count = 1 /\ ret.total = 2
    /\ Issued("new-window")

-----------------------------------------------------------------------------
(* the exit status of the commands *)

\* `remove NAME` or `refresh NAME` with a name, in a session that is there
NamedCommand ==
    /\ op.name \in {"remove NAME", "refresh NAME"}
    /\ op.target # <<>>
    /\ op.pre = "none"
    /\ before.session

\* C18: a command that ends in an error exits non-zero: an error raised
\* inside it, and also `remove NAME` and `refresh NAME` of a name that is not
\* a forward of the current list.
C18_ErrorsExitNonZero ==
    op.name \in {"remove NAME", "refresh NAME", "remove --all", "refresh --all"}
        => /\ ret.err # "none" => ret.exit # 0
           /\ NamedCommand /\ PlaceBefore(op.target) = 0 => ret.exit # 0

-----------------------------------------------------------------------------
(* Two invokers of add_forward on one session.  Each tmux call is one step:  *)
(* tmux serves the calls one at a time, and nothing orders the calls of two   *)
(* portmux processes.  op[p] holds the invocation of invoker p and, in its    *)
(* name, the place it has reached; ret[p] what it returned or raised; calls   *)
(* is the log of the tmux calls of both, in the order tmux served them;       *)
(* before is the session they started on.                                     *)

Invokers == 1..2

\* a valid spec and one of a port out of range
RaceSpecs == {<<"1", ":", "h", ":", "2">>, <<"0", ":", "h", ":", "2">>}

AtWindowExists == "add_forward at window_exists"

AtCreateWindow == "add_forward at create_window"

\* a tmux call of the log
CallBy(p, cmd, target) == [cmd |-> cmd, target |-> target, by |-> p]

InitRace ==
    /\ session \in BOOLEAN
    /\ windows \in (IF session THEN InitialWindows ELSE {<<>>})
    /\ pane \in {"command line", "process name"}
    /\ op = [p \in Invokers |-> NoOp]
    /\ ret = [p \in Invokers |-> Ret("none")]
    /\ calls = <<>>
    /\ before = G

\* add_forward up to its first tmux call: the direction and the spec are
\* validated, and the invocation ends there when one of them is invalid
RaceInvoke(p) ==
    /\ op[p] = NoOp
    /\ \E d \in Directions, s \in RaceSpecs, t \in Targets :
        \E o \in {add_forward(G, pane, d, s, t.host, t.identity, 0)} :
            /\ op' = [op EXCEPT ![p] =
                        [NoOp EXCEPT !.name = IF o.calls = <<>> THEN "add_forward"
                                              ELSE AtWindowExists,
                                     !.direction = d, !.spec = s,
                                     !.host = t.host, !.identity = t.identity]]
            /\ ret' = [ret EXCEPT ![p] = IF o.calls = <<>> THEN o.ret
                                         ELSE Ret("none")]
    /\ UNCHANGED <<session, windows, pane, calls, before>>

\* window_exists: the list-windows call, and the DuplicateForward it may raise
RaceCheck(p) ==
    /\ op[p].name = AtWindowExists
    /\ \E exists \in {window_exists(G, pane,
                                    WindowName(op[p].direction, op[p].spec),
                                    FALSE)} :
        /\ op' = [op EXCEPT ![p].name = IF exists.value THEN "add_forward"
                                        ELSE AtCreateWindow]
        /\ ret' = [ret EXCEPT ![p] =
                    IF exists.value
                    THEN add_forward_checked(G, <<>>, <<>>, 0, exists).ret
                    ELSE Ret("none")]
    /\ calls' = Append(calls, CallBy(p, "list-windows", <<>>))
    /\ UNCHANGED <<session, windows, pane, before>>

\* create_window: the new-window call, after a window_exists that answered
\* False, and the return of add_forward
RaceCreate(p) ==
    /\ op[p].name = AtCreateWindow
    /\ \E o \in {add_forward_checked(G,
                    WindowName(op[p].direction, op[p].spec),
                    join(<<" ">>, ssh_args(op[p].direction,
                                           parse_port_spec(op[p].spec).parsed,
                                           op[p].host, op[p].identity)),
                    0, [err |-> "none", value |-> FALSE])} :
        /\ session' = o.g.session
        /\ windows' = o.g.windows
        /\ ret' = [ret EXCEPT ![p] = o.ret]
    /\ op' = [op EXCEPT ![p].name = "add_forward"]
    /\ calls' = Append(calls, CallBy(p, "new-window",
                                     WindowName(op[p].direction, op[p].spec)))
    /\ UNCHANGED <<pane, before>>

NextRace ==
    \E p \in Invokers : RaceInvoke(p) \/ RaceCheck(p) \/ RaceCreate(p)

SpecRace == InitRace /\ [][NextRace]_vars

\* both invokers added the same well-formed forward, to a session that was
\* there and held no window of its name, and both have returned
BothAdded ==
    /\ \A p \in Invokers :
        /\ op[p].name = "add_forward"
        /\ op[p].direction \in {L, R}
        /\ WellFormedSpec(op[p].spec)
    /\ op[1].direction = op[2].direction
    /\ op[1].spec = op[2].spec
    /\ before.session
    /\ \A n \in 1..Len(before.windows) :
        before.windows[n].name # EncodedName(op[1].direction, op[1].spec)

\* tmux served the existence checks of both before the new-window of either
ChecksFirst ==
    /\ Len(calls) >= 2
    /\ calls[1].cmd = "list-windows"
    /\ calls[2].cmd = "list-windows"
    /\ calls[1].by # calls[2].by

\* the windows that carry the name both invokers encode
Twins ==
    {n \in 1..Len(windows) :
        windows[n].name = EncodedName(op[1].direction, op[1].spec)}

\* C19: when two add_forward invocations of the same direction and spec have
\* both passed the existence check before either created its window, both
\* succeed and the session holds two windows of the same encoded name; when
\* the check of one follows the creation of the other, it is rejected as a
\* duplicate and one window carries the name.
C19_AddRace ==
    BothAdded
        => IF ChecksFirst
           THEN /\ \A p \in Invokers : ret[p].err = "none"
                /\ Cardinality(Twins) = 2
           ELSE /\ \E p \in Invokers :
                    /\ ret[p].err = "none"
                    /\ ret[3 - p].err = "DuplicateForward"
                /\ Cardinality(Twins) = 1

\* both passed the check first, both returned the name, and two windows carry
\* it
C19_Witness ==
    /\ BothAdded
    /\ ChecksFirst
    /\ \A p \in Invokers :
        ret[p].name = EncodedName(op[1].direction, op[1].spec)
    /\ Cardinality(Twins) = 2

-----------------------------------------------------------------------------
(* profiles.py.  A dict is a function of its keys; None is a value that is   *)
(* no string and no list.  load_profile and merge_profile_with_base are       *)
(* applied to every configuration put together from a few values: `before`    *)
(* holds the configuration as loaded, op.target the name of the profile,      *)
(* ret.parsed the merged dict.                                                *)

None == <<"None">>

\* a key that the dict does not hold
Absent == <<"absent">>

EmptyDict == <<>>

\* bool(v) of a string, a list or None
Truthy(v) == v # None /\ v # <<>>

\* d.get(k, default)
Get(d, k, default) == IF k \in DOMAIN d THEN d[k] ELSE default

\* d[k] = v, on a copy of d
Set(d, k, v) == [x \in DOMAIN d \cup {k} |-> IF x = k THEN v ELSE d[x]]

get_profiles_config(config) == Get(config, "profiles", EmptyDict)

\* load_profile putting the commands of the profile after those of the base:
\* the concatenation C20 rules out
load_profile_appending(profile_name, merged_config, profile_commands) ==
    Set(IF Truthy(profile_commands)
        THEN Set(merged_config, "startup",
                 [auto_execute |-> TRUE,
                  commands |->
                      Get(Get(merged_config, "startup", EmptyDict),
                          "commands", <<>>) \o profile_commands])
        ELSE merged_config,
        "_active_profile", profile_name)

\* the overrides of load_profile from the startup commands on
load_profile_commands(profile_name, merged_config, profile_commands) ==
    Set(IF Truthy(profile_commands)
        THEN Set(merged_config, "startup",
                 [auto_execute |-> TRUE, commands |-> profile_commands])
        ELSE merged_config,
        "_active_profile", profile_name)

\* one override of load_profile: a key the profile holds with a true value
load_profile_key(merged_config, profile_config, key) ==
    IF key \in DOMAIN profile_config /\ Truthy(profile_config[key])
    THEN Set(merged_config, key, profile_config[key])
    ELSE merged_config

\* load_profile, from the profile found on
load_profile_found(profile_name, config, profile_config) ==
    load_profile_commands(profile_name,
        load_profile_key(load_profile_key(config, profile_config, "session_name"),
                         profile_config, "default_identity"),
        Get(profile_config, "commands", <<>>))

load_profile(profile_name, config) ==
    IF profile_name \notin DOMAIN get_profiles_config(config)
    THEN Ret("ConfigError")
    ELSE [Ret("none") EXCEPT !.parsed =
            load_profile_found(profile_name, config,
                               get_profiles_config(config)[profile_name])]

\* one override of merge_profile_with_base: a key the profile holds with a
\* value that is not None
merge_profile_key(merged, profile_config, key) ==
    IF key \in DOMAIN profile_config /\ profile_config[key] # None
    THEN Set(merged, key, profile_config[key])
    ELSE merged

\* the startup block merge_profile_with_base writes
merge_profile_startup(merged, profile_config) ==
    Set(Set(Get(merged, "startup", EmptyDict), "commands",
            profile_config["commands"]),
        "auto_execute", TRUE)

\* merge_profile_with_base, from the overrides of the two keys on
merge_profile_commands(merged, profile_config) ==
    IF "commands" \in DOMAIN profile_config /\ Truthy(profile_config["commands"])
    THEN Set(merged, "startup", merge_profile_startup(merged, profile_config))
    ELSE merged

merge_profile_with_base(base_config, profile_config) ==
    merge_profile_commands(
        merge_profile_key(merge_profile_key(base_config, profile_config,
                                            "session_name"),
                          profile_config, "default_identity"),
        profile_config)

\* a dict of the keys of r whose value is not Absent
Dict(r) == [k \in {x \in DOMAIN r : r[x] # Absent} |-> r[k]]

\* the values a profile gives to session_name and to default_identity
ProfileValues == {Absent, None, <<>>, <<"d">>}

\* the commands of a profile; "x" is a command of the base too
ProfileCommands == {Absent, <<>>, <<"p">>, <<"p", "x">>}

ProfileConfigs ==
    {Dict([session_name |-> s, default_identity |-> i, commands |-> c]) :
        s \in ProfileValues, i \in ProfileValues, c \in ProfileCommands}

\* the startup blocks of the base configuration
StartupConfigs ==
    [auto_execute : BOOLEAN, commands : {<<>>, <<"x">>, <<"x", "y">>}]

\* the configurations load_config returns: general keys at the root, with or
\* without a startup block, and one profile, named dev
BaseConfigs ==
    {[session_name |-> <<"b">>, default_identity |-> i,
      profiles |-> [dev |-> p]] :
        i \in {None, <<"k">>}, p \in ProfileConfigs}
    \cup
    {[session_name |-> <<"b">>, default_identity |-> i, startup |-> s,
      profiles |-> [dev |-> p]] :
        i \in {None, <<"k">>}, s \in StartupConfigs, p \in ProfileConfigs}

InitProfile ==
    /\ session = FALSE
    /\ windows = <<>>
    /\ pane = "command line"
    /\ op = NoOp
    /\ ret = Ret("none")
    /\ calls = <<>>
    /\ before \in BaseConfigs

LoadProfile ==
    /\ op = NoOp
    /\ \E profile_name \in {"dev", "qa"} :
        /\ op' = [NoOp EXCEPT !.name = "load_profile", !.target = profile_name]
        /\ ret' = load_profile(profile_name, before)
    /\ UNCHANGED <<session, windows, pane, calls, before>>

MergeProfileWithBase ==
    /\ op = NoOp
    /\ op' = [NoOp EXCEPT !.name = "merge_profile_with_base", !.target = "dev"]
    /\ ret' = [Ret("none") EXCEPT !.parsed =
                merge_profile_with_base(before, before.profiles["dev"])]
    /\ UNCHANGED <<session, windows, pane, calls, before>>

NextProfile == LoadProfile \/ MergeProfileWithBase

SpecProfile == InitProfile /\ [][NextProfile]_vars

\* a profile was merged into the base configuration
Merged ==
    /\ op.name \in {"load_profile", "merge_profile_with_base"}
    /\ ret.err = "none"

\* the profile holds the key with a value, and the value is not empty
SetsKey(profile, key) ==
    IF key \in DOMAIN profile THEN profile[key] \notin {None, <<>>} ELSE FALSE

\* the profile holds no such key, or None under it
LeavesKey(profile, key) ==
    IF key \in DOMAIN profile THEN profile[key] = None ELSE TRUE

\* the profile holds a list of commands that is not empty
HasCommands(profile) ==
    IF "commands" \in DOMAIN profile THEN profile["commands"] # <<>> ELSE FALSE

\* the startup block of the merged dict is that of the base, if any
StartupKept(base, merged) ==
    IF "startup" \in DOMAIN base
    THEN "startup" \in DOMAIN merged /\ merged["startup"] = base["startup"]
    ELSE "startup" \notin DOMAIN merged

\* what C20 says of a base, a profile and the dict merged from them
MergedAsClaimed(base, profile, merged) ==
    /\ \A key \in {"session_name", "default_identity"} :
        /\ SetsKey(profile, key) => merged[key] = profile[key]
        /\ LeavesKey(profile, key) => merged[key] = base[key]
        /\ merged[key] # base[key]
            => key \in DOMAIN profile /\ merged[key] = profile[key]
    /\ HasCommands(profile)
        => /\ merged["startup"]["commands"] = profile["commands"]
           /\ merged["startup"]["auto_execute"] = TRUE
    /\ ~ HasCommands(profile) => StartupKept(base, merged)

\* C20: the merged configuration takes session_name and default_identity from
\* the profile only when the profile sets them, and from the base otherwise;
\* a non-empty list of profile commands becomes the startup commands as it
\* is, with auto_execute on; without such a list the startup block of the base
\* is unchanged.
C20_ProfileMerge ==
    Merged => MergedAsClaimed(before, before.profiles[op.target], ret.parsed)

\* load_profile of a profile that sets its commands and no session name, over
\* a base whose startup block is off and holds commands of its own
C20_Witness ==
    /\ Merged
    /\ op.name = "load_profile"
    /\ "startup" \in DOMAIN before
    /\ before["startup"] = [auto_execute |-> FALSE, commands |-> <<"x", "y">>]
    /\ "session_name" \notin DOMAIN before.profiles["dev"]
    /\ HasCommands(before.profiles["dev"])
    /\ ret.parsed["startup"]["commands"] = <<"p", "x">>
    /\ ret.parsed["session_name"] = <<"b">>

-----------------------------------------------------------------------------
(* the delay of refresh *)

\* the places in the log of the calls of one kind
PlacesOf(cmd) == {n \in 1..Len(calls) : calls[n].cmd = cmd}

\* C22: `refresh --all` over N forwards with a delay greater than zero sleeps
\* N-1 times, once between every two consecutive calls of refresh_forward and
\* not after the last, whether the refreshes succeed or fail.
C22_SleepsBetweenRefreshes ==
    RefreshedAll /\ op.delay > 0
        => /\ Cardinality(PlacesOf("sleep")) = Len(ForwardsBefore) - 1
           /\ \A s \in PlacesOf("sleep") :
                \E r \in PlacesOf("refresh_forward") : r > s

\* C23: in `refresh NAME` with a delay greater than zero, a wait of the delay
\* occurs after the old window is killed and before the new one is created.
C23_DelayBetweenKillAndCreate ==
    op.name = "refresh NAME" /\ op.delay > 0
        => \A k \in PlacesOf("kill-window"), c \in PlacesOf("new-window") :
            k < c => \E s \in PlacesOf("sleep") : k < s /\ s < c

-----------------------------------------------------------------------------
(* refresh_forward of what tmux lists *)

\* the refresh_forward found under its name the one window that carries it, a
\* window add_forward created, while tmux reports the process of a pane as
\* its current command
RefreshedListed(n) ==
    /\ Refreshed
    /\ op.fault = 0
    /\ pane = "process name"
    /\ PlaceBefore(op.target) # 0
    /\ Carried(op.target) = {n}
    /\ \E t \in Targets :
        before.windows[n].command
            = ExpectedCommand(<<op.target[1]>>, SliceFrom(op.target, 2),
                              t.host, t.identity)

\* C25: refresh_forward of a forward that add_forward created, applied to what
\* list_forwards builds from the listing of tmux, recovers the host and the
\* identity and recreates the forward: it succeeds and leaves a window of the
\* same name and command line.
C25_RefreshFromListing ==
    \A n \in 1..Len(before.windows) :
        RefreshedListed(n)
            => /\ ret.err = "none"
               /\ windows = SelectIdx(before.windows,
                                      (1..Len(before.windows)) \ {n})
                               \o <<before.windows[n]>>

-----------------------------------------------------------------------------
(* what the commands leave alone *)

\* `remove NAME` or `refresh NAME`, with a name
Named == op.name \in {"remove NAME", "refresh NAME"} /\ op.target # <<>>

\* the windows that do not carry the name, in their order
Others(wins, name) ==
    SelectIdx(wins, {n \in 1..Len(wins) : wins[n].name # name})

MatchesForward(name) == HasForwardPrefix(name) /\ Len(name) >= 3

\* the windows whose names do not match, in their order
Unrelated(wins) ==
    SelectIdx(wins, {n \in 1..Len(wins) : ~ MatchesForward(wins[n].name)})

\* C28: `remove --all` and `refresh --all` kill and create only windows whose
\* names match ^[LR]:.+$, and every other window of the session is still
\* there afterwards, with its name and its command.
C28_UnrelatedWindowsKept ==
    op.name \in {"remove --all", "refresh --all"}
        => /\ \A n \in PlacesOf("kill-window") \cup PlacesOf("new-window") :
                MatchesForward(calls[n].target)
           /\ Unrelated(windows) = Unrelated(before.windows)

-----------------------------------------------------------------------------
(* refresh_forward and remove_forward of two invokers on one session, each    *)
(* tmux call one step as above.  The invoker of refresh_forward keeps, in its *)
(* op, what it read from the list: direction, spec, host and identity.        *)

\* the window add_forward("L", "1:h:2", "u") creates
AddedWindow ==
    [name |-> WindowName(L, <<"1", ":", "h", ":", "2">>),
     command |-> join(<<" ">>,
                      ssh_args(L, <<<<"1">>, <<"h">>, <<"2">>>>, <<"u">>, <<>>))]

RefreshRaceWindows ==
    {<<ShellWindow, AddedWindow>>, <<AddedWindow>>,
     <<ShellWindow, AddedWindow, HandWindow>>, <<ShellWindow, LogWindow>>}

RefreshRaceNames == {AddedWindow.name, HandWindow.name, ShellWindow.name}

InitRefreshRace ==
    /\ session = TRUE
    /\ windows \in RefreshRaceWindows
    /\ pane \in {"command line", "process name"}
    /\ op = [p \in Invokers |-> NoOp]
    /\ ret = [p \in Invokers |-> Ret("none")]
    /\ calls = <<>>
    /\ before = G

\* refresh_forward up to its remove_forward: the list-windows call of
\* list_forwards, the search of the name and the reading of the command, with
\* the errors they raise
RefreshRaceList(p) ==
    /\ op[p] = NoOp
    /\ \E name \in RefreshRaceNames :
        \E o \in {refresh_forward(G, pane, name, 0)},
           forwards \in {list_forwards(G, pane, 0).ret.forwards} :
            LET found == FirstIndex([n \in 1..Len(forwards) |->
                                        forwards[n].name], name)
                command_parts == split_ws(forwards[found].command)
            IN  IF Len(o.calls) = 1
                THEN /\ op' = [op EXCEPT ![p] =
                                [NoOp EXCEPT !.name = "refresh_forward",
                                             !.target = name]]
                     /\ ret' = [ret EXCEPT ![p] = o.ret]
                ELSE /\ op' = [op EXCEPT ![p] =
                                [NoOp EXCEPT
                                    !.name = "refresh_forward at remove_forward",
                                    !.target = name,
                                    !.direction = forwards[found].direction,
                                    !.spec = forwards[found].spec,
                                    !.host = command_parts[Len(command_parts)],
                                    !.identity = identity_of(command_parts)]]
                     /\ ret' = ret
    /\ calls' = Append(calls, CallBy(p, "list-windows", <<>>))
    /\ UNCHANGED <<session, windows, pane, before>>

\* remove_forward inside refresh_forward: the kill-window call, and the
\* validation add_forward does before its first tmux call
RefreshRaceRemove(p) ==
    /\ op[p].name = "refresh_forward at remove_forward"
    /\ \E removed \in {remove_forward(G, op[p].target, 0)} :
        \E o \in {refresh_forward_removed(pane,
                      [direction |-> op[p].direction, spec |-> op[p].spec],
                      op[p].host, op[p].identity, 0, <<>>, removed)} :
            /\ session' = removed.g.session
            /\ windows' = removed.g.windows
            /\ op' = [op EXCEPT ![p].name =
                        IF Len(o.calls) = 1 THEN "refresh_forward"
                        ELSE "refresh_forward at window_exists"]
            /\ ret' = [ret EXCEPT ![p] = IF Len(o.calls) = 1 THEN o.ret
                                         ELSE Ret("none")]
    /\ calls' = Append(calls, CallBy(p, "kill-window", op[p].target))
    /\ UNCHANGED <<pane, before>>

\* window_exists of the add_forward inside refresh_forward
RefreshRaceCheck(p) ==
    /\ op[p].name = "refresh_forward at window_exists"
    /\ \E exists \in {window_exists(G, pane,
                                    WindowName(op[p].direction, op[p].spec),
                                    FALSE)} :
        /\ op' = [op EXCEPT ![p].name = IF exists.value THEN "refresh_forward"
                                        ELSE "refresh_forward at create_window"]
        /\ ret' = [ret EXCEPT ![p] =
                    IF exists.value
                    THEN refresh_forward_added(<<>>,
                             add_forward_checked(G, <<>>, <<>>, 0, exists)).ret
                    ELSE Ret("none")]
    /\ calls' = Append(calls, CallBy(p, "list-windows", <<>>))
    /\ UNCHANGED <<session, windows, pane, before>>

\* create_window of the add_forward inside refresh_forward, and the return of
\* refresh_forward
RefreshRaceCreate(p) ==
    /\ op[p].name = "refresh_forward at create_window"
    /\ \E o \in {refresh_forward_added(<<>>,
                    add_forward_checked(G,
                        WindowName(op[p].direction, op[p].spec),
                        join(<<" ">>,
                             ssh_args(op[p].direction,
                                      parse_port_spec(op[p].spec).parsed,
                                      op[p].host, op[p].identity)),
                        0, [err |-> "none", value |-> FALSE]))} :
        /\ session' = o.g.session
        /\ windows' = o.g.windows
        /\ ret' = [ret EXCEPT ![p] = o.ret]
    /\ op' = [op EXCEPT ![p].name = "refresh_forward"]
    /\ calls' = Append(calls, CallBy(p, "new-window",
                                     WindowName(op[p].direction, op[p].spec)))
    /\ UNCHANGED <<pane, before>>

\* remove_forward of another invoker: one kill-window call
RaceRemove(p) ==
    /\ op[p] = NoOp
    /\ \E name \in RefreshRaceNames :
        \E o \in {remove_forward(G, name, 0)} :
            /\ session' = o.g.session
            /\ windows' = o.g.windows
            /\ op' = [op EXCEPT ![p] = [NoOp EXCEPT !.name = "remove_forward",
                                                    !.target = name]]
            /\ ret' = [ret EXCEPT ![p] = o.ret]
            /\ calls' = Append(calls, CallBy(p, "kill-window", name))
    /\ UNCHANGED <<pane, before>>

NextRefreshRace ==
    \E p \in Invokers :
        \/ RefreshRaceList(p)
        \/ RefreshRaceRemove(p)
        \/ RefreshRaceCheck(p)
        \/ RefreshRaceCreate(p)
        \/ RaceRemove(p)

SpecRefreshRace == InitRefreshRace /\ [][NextRefreshRace]_vars

\* invoker r has returned from refresh_forward and invoker m from
\* remove_forward of the same name, a forward of the list
RefreshAndRemove(r, m) ==
    /\ r # m
    /\ op[r].name = "refresh_forward"
    /\ op[m].name = "remove_forward"
    /\ op[r].target = op[m].target
    /\ \E n \in 1..Len(forwards_of(list_windows(before, pane, FALSE).windows)) :
        forwards_of(list_windows(before, pane, FALSE).windows)[n].name
            = op[r].target

\* tmux served the kill-window of remove_forward after the list-windows of
\* refresh_forward and before a later call of refresh_forward
Interleaved(r, m) ==
    \E i, j, k \in 1..Len(calls) :
        /\ i < j /\ j < k
        /\ calls[i].by = r /\ calls[i].cmd = "list-windows"
        /\ calls[j].by = m /\ calls[j].cmd = "kill-window"
        /\ calls[k].by = r

\* the removal reported success, refresh_forward returned True, and a window
\* of the name is there
RemovedAndYetActive(r, m) ==
    /\ ret[m].err = "none"
    /\ ret[m].value = TRUE
    /\ ret[r].err = "none"
    /\ ret[r].value = TRUE
    /\ \E n \in 1..Len(windows) : windows[n].name = op[r].target

\* the forward can be created again once it is removed: its spec is one
\* add_forward accepts, and another window keeps the session alive
Recreatable(r) ==
    /\ op[r].direction \in {L, R}
    /\ parse_port_spec(op[r].spec).err = "none"
    /\ \E n \in 1..Len(before.windows) :
        before.windows[n].name # op[r].target

\* C24 as stated: whenever a remove_forward of the same name is served after
\* refresh_forward has listed the forward and before refresh_forward is
\* through, the removal reports success, refresh_forward creates the window
\* again, and the forward is there at the end.
C24_RefreshRemoveRaceAlways ==
    \A r \in Invokers, m \in Invokers :
        RefreshAndRemove(r, m) /\ Interleaved(r, m)
            => RemovedAndYetActive(r, m)

\* C24: when a remove_forward of the same name is served after
\* refresh_forward has listed the forward and before refresh_forward is
\* through, and the forward has a valid spec and is not the last window of
\* the session, the removal reports success, refresh_forward creates the
\* window again, and the forward is there at the end.
C24_RefreshRemoveRace ==
    \A r \in Invokers, m \in Invokers :
        RefreshAndRemove(r, m) /\ Interleaved(r, m) /\ Recreatable(r)
            => RemovedAndYetActive(r, m)

\* the removal was served between the listing and the kill-window of
\* refresh_forward, it reported success, and the window is back
C24_Witness ==
    \E r \in Invokers, m \in Invokers :
        /\ RefreshAndRemove(r, m)
        /\ Recreatable(r)
        /\ Len(calls) = 5
        /\ calls[1].by = r /\ calls[1].cmd = "list-windows"
        /\ calls[2].by = m /\ calls[2].cmd = "kill-window"
        /\ calls[3].by = r /\ calls[3].cmd = "kill-window"
        /\ calls[5].by = r /\ calls[5].cmd = "new-window"
        /\ RemovedAndYetActive(r, m)

-----------------------------------------------------------------------------
(* The commands that create sessions: utils.py, commands/add.py, startup.py   *)
(* and commands/init.py, over a tmux server of several sessions.  Here        *)
(* session and windows are functions of the session name; the functions of    *)
(* session.py, windows.py and forwards.py act on the session they are given,  *)
(* View(srv, s), and Put writes back what they leave.  A tmux call about a    *)
(* session is logged with the name of the session as its target.              *)

Portmux == <<"p", "o", "r", "t", "m", "u", "x">>

Work == <<"w", "o", "r", "k">>

SessionNames == {Portmux, Work}

Srv == [session |-> session, windows |-> windows]

View(srv, s) == [session |-> srv.session[s], windows |-> srv.windows[s]]

Put(srv, s, g) ==
    [session |-> [srv.session EXCEPT ![s] = g.session],
     windows |-> [srv.windows EXCEPT ![s] = g.windows]]

\* new-session -d -s name: the session starts with one window, a shell
tmux_new_session(g, fail) ==
    IF fail THEN [rc |-> 1, stderr |-> "error", g |-> g]
    ELSE IF g.session THEN [rc |-> 1, stderr |-> "duplicate session", g |-> g]
    ELSE [rc |-> 0, stderr |-> "",
          g |-> [session |-> TRUE, windows |-> <<ShellWindow>>]]

\* create_session: True when created, False when the session is there
\* already, TmuxError otherwise
create_session(g, fail) ==
    LET result == tmux_new_session(g, fail)
    IN  IF result.rc = 0 THEN [err |-> "none", value |-> TRUE, g |-> result.g]
        ELSE IF result.stderr = "duplicate session"
             THEN [err |-> "none", value |-> FALSE, g |-> result.g]
        ELSE [err |-> "TmuxError", value |-> FALSE, g |-> result.g]

\* init_session_if_needed looking for the session and creating none: `add`
\* under it does not ensure the session, which C30 rules out
init_session_looked_for(g, s, fault, pre) ==
    Out(g, [Ret(session_exists(g, IF fault = 1 THEN "has-session missing"
                                  ELSE pre).err) EXCEPT !.value = TRUE],
        <<Call("has-session", s)>>)

\* init_session_if_needed of session s: fault 1 is a has-session that cannot
\* run, fault 2 a new-session that fails, "has-session error" a has-session
\* that answers with an error
init_session_if_needed(g, s, fault, pre) ==
    LET exists == session_exists(g, IF fault = 1 THEN "has-session missing"
                                    ELSE pre)
        created == create_session(g, fault = 2)
    IN  IF exists.err # "none"
        THEN Out(g, Ret(exists.err), <<Call("has-session", s)>>)
        ELSE IF exists.value
             THEN Out(g, [Ret("none") EXCEPT !.value = TRUE],
                      <<Call("has-session", s)>>)
        ELSE Out(created.g, [Ret(created.err) EXCEPT !.value = TRUE],
                 <<Call("has-session", s), Call("new-session", s)>>)

\* the capitals of the small letters of "local" and "remote"
Capital ==
    [a |-> "A", c |-> "C", e |-> "E", l |-> "L", m |-> "M", o |-> "O",
     r |-> "R", t |-> "T"]

\* str.upper() on the letters of the directions of the model
upper(s) ==
    [n \in 1..Len(s) |->
        IF s[n] \in DOMAIN Capital THEN Capital[s[n]] ELSE s[n]]

\* validate_direction: the normalised direction, or click.BadParameter
validate_direction(direction) ==
    IF upper(direction) \notin {L, R, <<"L", "O", "C", "A", "L">>, <<"R", "E", "M", "O", "T", "E">>}
    THEN Ret("BadParameter")
    ELSE [Ret("none") EXCEPT !.name =
            IF upper(direction) \in {<<"L", "O", "C", "A", "L">>, L} THEN L ELSE R]

\* `add`, from the session ensured on: add_forward in the session, and the
\* exit status
add_ensured(srv, pn, s, direction, spec, host, identity, fault, ensured) ==
    LET added == add_forward(ensured.g, pn, direction, spec, host, identity,
                             IF fault > 2 THEN fault - 2 ELSE 0)
    IN  IF ensured.ret.err # "none"
        THEN Raised(Put(srv, s, ensured.g), ensured.ret.err, ensured.calls)
        ELSE Out(Put(srv, s, added.g),
                 IF added.ret.err # "none"
                 THEN [added.ret EXCEPT !.exit = 1]
                 ELSE [added.ret EXCEPT !.said = "Successfully created"],
                 ensured.calls \o added.calls)

\* `portmux --session s add DIRECTION SPEC HOST [-i IDENTITY]`: the argument
\* callbacks of click (a refusal exits 2 before the command body runs), the
\* identity given or the default one, init_session_if_needed, add_forward
add(srv, pn, s, direction, spec, host, identity, default_identity, fault, pre) ==
    IF validate_direction(direction).err # "none"
       \/ parse_port_spec(spec).err # "none"
    THEN Out(srv, [Ret("BadParameter") EXCEPT !.exit = 2], <<>>)
    ELSE add_ensured(srv, pn, s, validate_direction(direction).name, spec,
                     host,
                     IF identity # <<>> THEN identity ELSE default_identity,
                     fault,
                     init_session_if_needed(View(srv, s), s, fault, pre))

\* the configuration file that is not there
NoFile == [exists |-> FALSE]

\* An invocation of a command: the global option --session, the configuration
\* file, the profile ("": none is asked for), the options and arguments of the command, the hard failure its
\* tmux calls meet, and what each startup command meets when it is run.
NoCommand ==
    [name |-> "none", session |-> <<>>, config |-> NoFile, profile |-> "",
     force |-> FALSE, no_startup |-> FALSE, direction |-> <<>>, spec |-> <<>>,
     host |-> <<>>, identity |-> <<>>, fault |-> 0, pre |-> "none",
     plan |-> <<>>]

\* the sessions of the server at the start: none, or some with the windows of
\* a session in use
InitServer ==
    /\ session \in [SessionNames -> BOOLEAN]
    /\ windows \in [SessionNames -> {<<>>, <<ShellWindow>>,
                                      <<ShellWindow, AddedWindow>>}]
    /\ \A s \in SessionNames : session[s] <=> windows[s] # <<>>
    /\ pane = "process name"
    /\ op = NoCommand
    /\ ret = Ret("none")
    /\ calls = <<>>
    /\ before = Srv

\* the command ends as o says
Run(invocation, o) ==
    /\ op = NoCommand
    /\ session' = o.g.session
    /\ windows' = o.g.windows
    /\ op' = invocation
    /\ ret' = o.ret
    /\ calls' = o.calls
    /\ before' = Srv
    /\ UNCHANGED pane

\* the directions `add` is given on the command line
AddDirections == {L, <<"l">>, <<"r", "e", "m", "o", "t", "e">>, <<"X">>}

AddCommand ==
    /\ op = NoCommand
    /\ \E s \in SessionNames, d \in AddDirections, spec \in RaceSpecs,
          identity \in {<<>>, <<"k">>}, default_identity \in {<<>>, <<"k">>},
          f \in 0..4, pre \in {"none", "has-session error"} :
        /\ pre # "none" => f = 0
        /\ f # 0 \/ pre # "none"
              => d = L /\ identity = <<>> /\ default_identity = <<>>
        /\ default_identity # <<>> => identity = <<>>
        /\ Run([NoCommand EXCEPT !.name = "add", !.session = s,
                                 !.direction = d, !.spec = spec,
                                 !.host = <<"u">>, !.identity = identity,
                                 !.fault = f, !.pre = pre],
               add(Srv, pane, s, d, spec, <<"u">>, identity,
                   default_identity, f, pre))

ReturnCommand ==
    /\ op # NoCommand
    /\ op' = NoCommand
    /\ ret' = Ret("none")
    /\ calls' = <<>>
    /\ before' = Srv
    /\ UNCHANGED <<session, windows, pane>>

-----------------------------------------------------------------------------
(* startup.py.  The commands of the model hold no quotes, so shlex.split is   *)
(* the split at whitespace.  A startup command runs as a subprocess, and      *)
(* `outcome` is what the subprocess meets: "run" (it runs to its end; an      *)
(* external command returns 0), "fail" (it returns non-zero), "timeout", or   *)
(* "missing" (the executable is not found).  A portmux command that runs is   *)
(* the CLI of this repository, so it acts on the server as the CLI does;      *)
(* an external command leaves tmux alone.                                     *)

\* the parsed command, or ConfigError
parse_startup_command(command) ==
    LET parts == split_ws(strip(command))
    IN  IF command = <<>> \/ strip(command) = <<>> \/ parts = <<>>
        THEN Ret("ConfigError")
        ELSE IF parts[1] = Portmux
                /\ \/ Len(parts) = 1
                   \/ parts[2] \notin {<<"a", "d", "d">>, <<"r", "e", "m", "o", "v", "e">>, <<"l", "i", "s", "t">>, <<"r", "e", "f", "r", "e", "s", "h">>,
                                       <<"s", "t", "a", "t", "u", "s">>, <<"p", "r", "o", "f", "i", "l", "e">>}
             THEN Ret("ConfigError")
        ELSE [Ret("none") EXCEPT !.name = parts[1], !.forwards = Tail(parts)]

\* `portmux ARGS` in a subprocess: the global option --session (default
\* 'portmux'), then the command; the startup commands of the model that pass
\* parse_startup_command are `add` commands
cli(srv, pn, args, default_identity) ==
    LET given == Len(args) >= 2 /\ args[1] \in {<<"-", "-", "s", "e", "s", "s", "i", "o", "n">>, <<"-", "s">>}
        s == IF given THEN args[2] ELSE Portmux
        rest == IF given THEN Tail(Tail(args)) ELSE args
    IN  IF Len(rest) = 4 /\ rest[1] = <<"a", "d", "d">> /\ s \in SessionNames
        THEN add(srv, pn, s, rest[2], rest[3], rest[4], <<>>,
                 default_identity, 0, "none")
        ELSE Out(srv, [Ret("UsageError") EXCEPT !.exit = 2], <<>>)

\* what execute_startup_command leaves: result is "True", "False" or the
\* exception it raised
Executed(srv, result, c) == [srv |-> srv, result |-> result, calls |-> c]

\* the subprocess of a parsed command
execute_parsed(srv, pn, command, session_name, outcome, default_identity, cmd_args) ==
    LET ran == cli(srv, pn,
                   IF \E n \in 1..Len(cmd_args) :
                        cmd_args[n] \in {<<"-", "-", "s", "e", "s", "s", "i", "o", "n">>, <<"-", "s">>}
                   THEN cmd_args
                   ELSE <<<<"-", "-", "s", "e", "s", "s", "i", "o", "n">>, session_name>> \o cmd_args,
                   default_identity)
    IN  IF outcome = "missing"
        THEN Executed(srv, "PortMuxError", <<Call("startup", command)>>)
        ELSE IF outcome \in {"timeout", "fail"}
             THEN Executed(srv, "False", <<Call("startup", command)>>)
        ELSE IF split_ws(strip(command))[1] # Portmux
             THEN Executed(srv, "True", <<Call("startup", command)>>)
        ELSE Executed(ran.g, IF ran.ret.exit = 0 THEN "True" ELSE "False",
                      <<Call("startup", command)>> \o ran.calls)

execute_startup_command(srv, pn, command, session_name, outcome, default_identity) ==
    IF parse_startup_command(command).err # "none"
    THEN Executed(srv, parse_startup_command(command).err,
                  <<Call("startup", command)>>)
    ELSE execute_parsed(srv, pn, command, session_name, outcome,
                        default_identity,
                        parse_startup_command(command).forwards)

\* one iteration of the loop of execute_startup_commands: the count of
\* successes, and the results so far
startup_step(acc, one) ==
    [srv |-> one.srv,
     count |-> acc.count + (IF one.result = "True" THEN 1 ELSE 0),
     results |-> Append(acc.results, one.result),
     calls |-> acc.calls \o one.calls]

\* the loop giving up at the first command that does not succeed: what C26
\* rules out
RECURSIVE startup_loop_abort(_, _, _, _, _, _, _)
startup_loop_abort(acc, pn, commands, session_name, plan, default_identity, i) ==
    IF i > Len(commands) \/ acc.count < i - 1 THEN acc
    ELSE startup_loop_abort(
             startup_step(acc,
                 execute_startup_command(acc.srv, pn, commands[i],
                                         session_name, plan[i],
                                         default_identity)),
             pn, commands, session_name, plan, default_identity, i + 1)

RECURSIVE startup_loop(_, _, _, _, _, _, _)
startup_loop(acc, pn, commands, session_name, plan, default_identity, i) ==
    IF i > Len(commands) THEN acc
    ELSE startup_loop(
             startup_step(acc,
                 execute_startup_command(acc.srv, pn, commands[i],
                                         session_name, plan[i],
                                         default_identity)),
             pn, commands, session_name, plan, default_identity, i + 1)

DEFAULT_STARTUP_CONFIG == [auto_execute |-> TRUE, commands |-> <<>>]

get_startup_config(config) == Get(config, "startup", DEFAULT_STARTUP_CONFIG)

startup_commands_enabled(config) ==
    /\ Get(get_startup_config(config), "auto_execute", TRUE)
    /\ Len(Get(get_startup_config(config), "commands", <<>>)) > 0

\* execute_startup_commands, from the end of the loop on: True when every
\* command succeeded
startup_done(acc, total) ==
    Out(acc.srv,
        [Ret("none") EXCEPT !.value = acc.count = total, !.count = acc.count,
                            !.total = total, !.failed = acc.results],
        acc.calls)

execute_startup_commands(srv, pn, config, session_name, plan, default_identity) ==
    IF \/ ~ Get(get_startup_config(config), "auto_execute", TRUE)
       \/ Get(get_startup_config(config), "commands", <<>>) = <<>>
    THEN Out(srv, [Ret("none") EXCEPT !.value = TRUE], <<>>)
    ELSE startup_done(
             startup_loop([srv |-> srv, count |-> 0, results |-> <<>>,
                           calls |-> <<>>],
                          pn, Get(get_startup_config(config), "commands", <<>>),
                          session_name, plan, default_identity, 1),
             Len(Get(get_startup_config(config), "commands", <<>>)))

-----------------------------------------------------------------------------
(* config.py and commands/init.py *)

DEFAULT_CONFIG ==
    [session_name |-> Portmux, default_identity |-> None,
     reconnect_delay |-> 1, max_retries |-> 3]

\* dict.update
Update(d, e) == [k \in DOMAIN d \cup DOMAIN e |-> IF k \in DOMAIN e THEN e[k]
                                                  ELSE d[k]]

\* the check of the startup commands by validate_config: none is blank
valid_startup(startup) ==
    \A n \in 1..Len(Get(startup, "commands", <<>>)) :
        strip(startup["commands"][n]) # <<>>

\* load_config of a file in the structured format (NoFile: there is no file):
\* the general keys at the root, the startup block and the profiles, or
\* ConfigError
load_config(file) ==
    LET general == Update(DEFAULT_CONFIG, Get(file, "general", EmptyDict))
        startup == Update(DEFAULT_STARTUP_CONFIG, Get(file, "startup", EmptyDict))
        profiles == Get(file, "profiles", EmptyDict)
    IN  IF file = NoFile
        THEN [Ret("none") EXCEPT !.parsed =
                Update(DEFAULT_CONFIG, [startup |-> DEFAULT_STARTUP_CONFIG,
                                        profiles |-> EmptyDict])]
        ELSE IF ~ valid_startup(startup) THEN Ret("ConfigError")
        ELSE [Ret("none") EXCEPT !.parsed =
                Update(general, [startup |-> startup, profiles |-> profiles])]

\* `init`, from the result of create_session on: the startup commands, unless
\* skipped or not enabled
init_created(srv, pn, config, session_name, no_startup, plan, default_identity, c, created) ==
    LET started == execute_startup_commands(Put(srv, session_name, created.g),
                       pn, config, session_name, plan, default_identity)
    IN  IF created.err # "none"
        THEN Raised(Put(srv, session_name, created.g), created.err, c)
        ELSE IF ~ created.value
             THEN Said(Put(srv, session_name, created.g), "already exists", c)
        ELSE IF ~ no_startup /\ startup_commands_enabled(config)
             THEN Out(started.g,
                      [started.ret EXCEPT !.said =
                          IF started.ret.value
                          THEN "Startup commands completed successfully"
                          ELSE "Some startup commands failed (session still active)"],
                      c \o started.calls)
        ELSE Said(Put(srv, session_name, created.g),
                  "Successfully initialized", c)

\* `init`, from the answer of session_exists on: a session that is there is
\* left alone, or killed under --force (fault 2: kill-session fails); then
\* create_session (fault 3: new-session fails)
init_checked(srv, pn, config, session_name, force, no_startup, fault, plan, default_identity, exists) ==
    LET has == <<Call("has-session", session_name)>>
        killed == kill_session(View(srv, session_name), fault = 2)
        kill == <<Call("kill-session", session_name)>>
        new == <<Call("new-session", session_name)>>
    IN  IF exists.err # "none" THEN Raised(srv, exists.err, has)
        ELSE IF exists.value /\ ~ force THEN Said(srv, "already exists", has)
        ELSE IF exists.value /\ killed.err # "none"
             THEN Raised(srv, killed.err, has \o kill)
        ELSE IF exists.value
             THEN init_created(srv, pn, config, session_name, no_startup, plan,
                               default_identity, has \o kill \o new,
                               create_session(killed.g, fault = 3))
        ELSE init_created(srv, pn, config, session_name, no_startup, plan,
                          default_identity, has \o new,
                          create_session(View(srv, session_name), fault = 3))

\* `init`, from the configuration on: the session is the one the
\* configuration names, and the one of --session when it names none
init_configured(srv, pn, base_session_name, config, force, no_startup, fault, pre, plan, default_identity) ==
    init_checked(srv, pn, config,
                 Get(config, "session_name", base_session_name),
                 force, no_startup, fault, plan, default_identity,
                 session_exists(
                     View(srv, Get(config, "session_name", base_session_name)),
                     IF fault = 1 THEN "has-session missing" ELSE pre))

\* `portmux --session base_session_name init [--force] [--profile P]
\* [--no-startup]` with the configuration file `file`; default_identity is
\* the identity an `add` run by a startup command falls back to (the files of
\* the model name none, so it is the one get_default_identity finds)
init(srv, pn, base_session_name, file, profile, force, no_startup, fault, pre, plan, default_identity) ==
    IF load_config(file).err # "none"
    THEN Raised(srv, load_config(file).err, <<>>)
    ELSE IF profile = ""
         THEN init_configured(srv, pn, base_session_name,
                              load_config(file).parsed, force, no_startup,
                              fault, pre, plan, default_identity)
    ELSE IF load_profile(profile, load_config(file).parsed).err # "none"
         THEN Raised(srv, "ClickException", <<>>)
    ELSE init_configured(srv, pn, base_session_name,
                         load_profile(profile, load_config(file).parsed).parsed,
                         force, no_startup, fault, pre, plan, default_identity)

-----------------------------------------------------------------------------
(* The state machine of the commands that create sessions. *)

\* startup commands: an add, an add that names its session, an external
\* command, a portmux command that is no startup command, a blank
AddL == <<"p", "o", "r", "t", "m", "u", "x", " ", "a", "d", "d", " ", "L", " ", "1", ":", "h", ":", "2", " ", "u">>

AddRWork == <<"p", "o", "r", "t", "m", "u", "x", " ", "-", "s", " ", "w", "o", "r", "k", " ", "a", "d", "d", " ", "R", " ", "1", ":", "h", ":", "2", " ", "u">>

External == <<"x">>

InitAgain == <<"p", "o", "r", "t", "m", "u", "x", " ", "i", "n", "i", "t">>

Blank == <<" ">>

StartupLists ==
    {<<>>, <<AddL>>, <<External, AddL>>, <<InitAgain, AddL>>, <<AddL, AddL>>,
     <<AddRWork, External>>}

\* what the subprocess of a command can meet
Outcomes(command) ==
    IF parse_startup_command(command).err # "none" THEN {"run"}
    ELSE IF split_ws(strip(command))[1] = Portmux
         THEN {"run", "timeout", "missing"}
    ELSE {"run", "fail", "timeout", "missing"}

\* at most one command of the list meets something else than "run"
Plans(commands) ==
    {plan \in [1..Len(commands) -> {"run", "fail", "timeout", "missing"}] :
        /\ \A n \in 1..Len(commands) : plan[n] \in Outcomes(commands[n])
        /\ Cardinality({n \in 1..Len(commands) : plan[n] # "run"}) <= MaxFaults}

\* the profiles of the configuration files: dev names a session and its
\* commands
InitProfiles == [dev |-> [session_name |-> Work, commands |-> <<AddL>>]]

\* the configuration files: none, one that names the session, ones with
\* startup commands, one with a blank command, one with a profile
ConfigFiles ==
    {NoFile, [general |-> [session_name |-> Work]],
     [startup |-> [commands |-> <<Blank>>]],
     [startup |-> [auto_execute |-> FALSE, commands |-> <<AddL>>]],
     [general |-> EmptyDict, profiles |-> InitProfiles]}
        \cup {[startup |-> [commands |-> c]] : c \in StartupLists}

\* the commands `init` runs at startup with this file and this profile
CommandsOf(file, profile) ==
    LET config == IF profile = "" \/ load_config(file).err # "none"
                     \/ load_profile(profile, load_config(file).parsed).err # "none"
                  THEN load_config(file).parsed
                  ELSE load_profile(profile, load_config(file).parsed).parsed
    IN  IF load_config(file).err # "none" THEN <<>>
        ELSE Get(get_startup_config(config), "commands", <<>>)

\* the ways `init` is invoked: with each file; with a tmux call that fails;
\* with a profile, one that is there and one that is not; with --no-startup
InitCases ==
    {[file |-> x, profile |-> "", no_startup |-> FALSE, fault |-> 0,
      pre |-> "none"] : x \in ConfigFiles}
    \cup {[file |-> [startup |-> [commands |-> <<AddL>>]], profile |-> "",
           no_startup |-> FALSE, fault |-> f, pre |-> "none"] : f \in 1..3}
    \cup {[file |-> NoFile, profile |-> "", no_startup |-> FALSE, fault |-> 0,
           pre |-> "has-session error"]}
    \cup {[file |-> x, profile |-> p, no_startup |-> FALSE, fault |-> 0,
           pre |-> "none"] :
            x \in {NoFile, [general |-> EmptyDict, profiles |-> InitProfiles]},
            p \in {"dev", "qa"}}
    \cup {[file |-> [startup |-> [commands |-> <<AddL>>]], profile |-> "",
           no_startup |-> TRUE, fault |-> 0, pre |-> "none"]}

InitCommand ==
    /\ op = NoCommand
    /\ \E c \in InitCases :
        \E plan \in Plans(CommandsOf(c.file, c.profile)),
           s \in SessionNames, force \in BOOLEAN :
            /\ c.fault # 0 \/ c.pre # "none" \/ c.no_startup \/ c.profile # ""
                  => \A n \in DOMAIN plan : plan[n] = "run"
            /\ Run([NoCommand EXCEPT !.name = "init", !.session = s,
                                     !.config = c.file, !.profile = c.profile,
                                     !.force = force,
                                     !.no_startup = c.no_startup,
                                     !.fault = c.fault, !.pre = c.pre,
                                     !.plan = plan],
                   init(Srv, pane, s, c.file, c.profile, force, c.no_startup,
                        c.fault, c.pre, plan, <<>>))

\* execute_startup_commands on a configuration, for a session
ExecuteStartupCommands ==
    /\ op = NoCommand
    /\ \E auto_execute \in BOOLEAN,
          commands \in StartupLists \cup {<<Blank, External>>} :
        \E plan \in Plans(commands), s \in SessionNames :
            /\ ~ auto_execute
                  => commands = <<AddL>> /\ \A n \in DOMAIN plan : plan[n] = "run"
            /\ Run([NoCommand EXCEPT
                        !.name = "execute_startup_commands", !.session = s,
                        !.config = [startup |-> [auto_execute |-> auto_execute,
                                                 commands |-> commands]],
                        !.plan = plan],
                   execute_startup_commands(Srv, pane,
                       [startup |-> [auto_execute |-> auto_execute,
                                     commands |-> commands]],
                       s, plan, <<>>))

NextInit ==
    \/ AddCommand
    \/ InitCommand
    \/ ExecuteStartupCommands
    \/ ReturnCommand

SpecInit == InitServer /\ [][NextInit]_vars

-----------------------------------------------------------------------------
(* the commands that create sessions: what they ensure *)

\* the session the command was invoked for was there at its start
WasThere == before.session[op.session]

\* `add` with arguments click accepts
AddAccepted == op.name = "add" /\ ret.err # "BadParameter"

\* no tmux call of the invocation was made to fail or to answer wrongly
Unharmed == op.fault = 0 /\ op.pre = "none"

\* the window name `add` encodes from its arguments
AddedName == EncodedName(validate_direction(op.direction).name, op.spec)

\* C30: `add` ensures the session before it creates the forward.  When the
\* session is absent, new-session is called, before the list-windows of the
\* existence check and before new-window; when the session is there, no
\* new-session is called; and an `add` with valid arguments on an absent
\* session, no tmux call failing, ends with the session there and the new
\* forward in it.
C30_AddEnsuresSession ==
    AddAccepted
        => /\ ~ WasThere /\ op.fault # 1
              => /\ PlacesOf("new-session") # {}
                 /\ \A n \in PlacesOf("list-windows") \cup PlacesOf("new-window"),
                       m \in PlacesOf("new-session") : m < n
           /\ WasThere /\ op.pre = "none" => PlacesOf("new-session") = {}
           /\ ~ WasThere /\ Unharmed
              => /\ session[op.session]
                 /\ ret.exit = 0
                 /\ ret.name = AddedName
                 /\ \E n \in 1..Len(windows[op.session]) :
                        windows[op.session][n].name = AddedName

\* `add` on an absent session created the session and then the forward
C30_Witness ==
    /\ AddAccepted
    /\ ~ WasThere
    /\ Unharmed
    /\ [n \in 1..Len(calls) |-> calls[n].cmd]
          = <<"has-session", "new-session", "list-windows", "new-window">>
    /\ windows[op.session]
          = <<ShellWindow, [name |-> AddedName,
                            command |-> windows[op.session][2].command]>>

\* the startup commands the invocation attempted, in the order of the
\* attempts
Attempted ==
    [n \in 1..Cardinality(PlacesOf("startup")) |->
        SelectIdx(calls, PlacesOf("startup"))[n].target]

\* the startup commands of the configuration the invocation ran with
Configured ==
    IF op.name = "init" THEN CommandsOf(op.config, op.profile)
    ELSE op.config.startup.commands

\* the invocation ran the loop of execute_startup_commands: directly with
\* auto_execute on and a list that is not empty, or from `init` once the
\* session was created
RanStartup ==
    \/ /\ op.name = "execute_startup_commands"
       /\ op.config.startup.auto_execute
       /\ Configured # <<>>
    \/ /\ op.name = "init"
       /\ ret.total > 0

\* every session that was there is there, with the windows it had before any
\* new one
NothingKilled ==
    /\ PlacesOf("kill-window") = {}
    /\ op.name = "execute_startup_commands" => PlacesOf("kill-session") = {}
    /\ \A s \in SessionNames :
        before.session[s] /\ ~ (op.name = "init" /\ op.force)
            => /\ session[s]
               /\ Len(windows[s]) >= Len(before.windows[s])
               /\ SubSeq(windows[s], 1, Len(before.windows[s]))
                    = before.windows[s]

InitOnExisting ==
    /\ op.name = "init"
    /\ calls # <<>>
    /\ op.fault # 1
    /\ op.pre = "none"
    /\ before.session[calls[1].target]

\* `init` reported the session as initialised
Initialised ==
    ret.said \in {"Successfully initialized",
                  "Startup commands completed successfully",
                  "Some startup commands failed (session still active)"}

\* C21: `init` on a session that exists.  Without --force it calls no
\* kill-session and no new-session, runs no startup command, and leaves every
\* session and window as it was.  With --force it calls kill-session and
\* then new-session; unless one of the two fails it reports the session as
\* initialised, the session is there, and its windows are the shell of the
\* new session and windows created by the startup commands of this
\* invocation: no window of the old session is left.
C21_InitOnExistingSession ==
    InitOnExisting
        => IF ~ op.force
           THEN /\ [n \in 1..Len(calls) |-> calls[n].cmd] = <<"has-session">>
                /\ session = before.session
                /\ windows = before.windows
                /\ ret.said = "already exists"
                /\ ret.exit = 0
           ELSE /\ Len(calls) >= 2
                /\ calls[2] = Call("kill-session", calls[1].target)
                /\ op.fault = 2 => Len(calls) = 2 /\ ret.exit = 1
                /\ op.fault # 2
                      => /\ Len(calls) >= 3
                         /\ calls[3] = Call("new-session", calls[1].target)
                /\ op.fault = 0
                      => /\ Initialised
                         /\ session[calls[1].target]
                         /\ windows[calls[1].target][1] = ShellWindow
                         /\ Len(windows[calls[1].target])
                              <= 1 + Cardinality(PlacesOf("new-window"))
                         /\ \A n \in 2..Len(windows[calls[1].target]) :
                              \E m \in PlacesOf("new-window") :
                                calls[m].target
                                    = windows[calls[1].target][n].name

\* `init --force` on a session that held a forward: the session is there
\* again, with its shell alone
C21_Witness ==
    /\ InitOnExisting
    /\ op.force
    /\ before.windows[calls[1].target] = <<ShellWindow, AddedWindow>>
    /\ [n \in 1..Len(calls) |-> calls[n].cmd]
          = <<"has-session", "kill-session", "new-session">>
    /\ Initialised
    /\ session[calls[1].target]
    /\ windows[calls[1].target] = <<ShellWindow>>

\* C29: `init` without --profile creates the session named by the global
\* option --session, and runs the startup commands against it: after an
\* `init` that reports success the new-session call named that session, the
\* session is there, and no other session was created.
C29_InitCreatesNamedSession ==
    op.name = "init" /\ op.profile = "" /\ Initialised
        => /\ \E n \in PlacesOf("new-session") :
                calls[n].target = op.session
           /\ session[op.session]
           /\ \A n \in 1..Len(calls) :
                calls[n].cmd \in {"has-session", "new-session", "kill-session"}
                    /\ calls[n].target # op.session
                    => \E m \in 1..(n - 1) : calls[m].cmd = "startup"

====
